---------------------------- MODULE Spec2Model ----------------------------
(***************************************************************************)
(* Model of the chat agent session engine of qinhang:                      *)
(*   - the session module (session tokens, per-IP creation throttle,       *)
(*     hourly sweep), src/unnamed/part_001;                                *)
(*   - the AI agent module (POST /ai/chat, POST /ai/chat/stream,           *)
(*     POST /ai/send-booking, DELETE /ai/chat/:sessionId),                 *)
(*     src/src/modules/ai-agent/index.ts.                                  *)
(*                                                                         *)
(* Node runs every handler synchronously up to its next await, so one      *)
(* action is one handler segment between two suspension points.  The       *)
(* suspension points are the calls to the model provider and to            *)
(* executeToolCall.  Time is counted in hours.                             *)
(***************************************************************************)
EXTENDS Integers, Sequences, FiniteSets, TLC

VARIABLES
    now,                \* the wall clock (new Date()), in hours
    sessions,           \* Map token -> SessionToken
    tokenCreationByIp,  \* Map ip -> {count, resetAt}
    chatHistories,      \* Map sessionId (conversation id) -> message array
    activeRequests,     \* keys of the Map sessionId -> true
    inflight,           \* the handler invocations suspended at an await
    minted,             \* every session ever created, by token: <<[ip, at]>>
    nAccepted,          \* number of chat exchanges accepted so far
    last,               \* how the latest chat exchange to end was answered
    unswept             \* sessions and tokenCreationByIp of the twin process
                        \* whose setInterval callback never runs and that
                        \* is sent the same requests

vars == <<now, sessions, tokenCreationByIp, chatHistories, activeRequests,
          inflight, minted, nAccepted, last, unswept>>

-----------------------------------------------------------------------------
(* Program constants *)

MAX_MESSAGES_PER_TOKEN == 25
TOKEN_EXPIRY_HOURS == 24
MAX_TOKENS_PER_IP_PER_DAY == 3
IP_WINDOW_HOURS == 24
MAX_HISTORY_LENGTH == 20
maxIterations == 5

(* Bounds of the model *)

MaxTime == 48           \* the clock stops here
MaxTokens == 2          \* sessions minted in Spec
MaxExchanges == 2       \* chat exchanges accepted in Spec
MaxInFlight == 2        \* handler invocations suspended at once
NumConvs == 2           \* conversation ids in use
NumIps == 1             \* origins in Spec
MaxToolCalls == 1       \* tool calls in one model response
MaxToolRounds == 1      \* responses with tool calls in one exchange of Spec
MaxChunks == 1          \* content chunks of one streamed reply
LedgerTokens == 5       \* sessions minted in SpecLedger
LedgerIps == 2          \* origins in SpecLedger
SweepTokens == 4        \* sessions minted in SpecSweep
LoopExchanges == 2      \* chat exchanges accepted in SpecLoop
LoopToolCalls == 2      \* tool calls in one model response in SpecLoop
TrimSlack == 2          \* bounds of a second trim: up to this many above 20
ToolsExchanges == 2     \* chat exchanges accepted in SpecTools
ToolsRounds == 2        \* responses with tool calls in one exchange of SpecTools
StepsExchanges == 3     \* chat exchanges accepted in SpecSteps
PairExchanges == 4      \* chat exchanges accepted in SpecPair
PairRounds == 2         \* responses with tool calls in one exchange of SpecPair
LiveExchanges == 2      \* chat exchanges accepted in SpecLive
LiveRounds == 7         \* responses with tool calls in one exchange of SpecLive

Ips == 1..NumIps
Convs == 1..NumConvs

\* The clock advances by a day or by half a day
Day == TOKEN_EXPIRY_HOURS
HalfDay == TOKEN_EXPIRY_HOURS \div 2

NoToken == 0            \* the x-session-token header is absent
NoConv == 0             \* the body carries no sessionId

-----------------------------------------------------------------------------
(* Maps *)

Put(m, k, v) == [x \in DOMAIN m \cup {k} |-> IF x = k THEN v ELSE m[x]]
Remove(m, k) == [x \in DOMAIN m \ {k} |-> m[x]]
EmptyMap == [x \in {} |-> 0]

(* Messages of a chat history *)

UserTurn == [role |-> "user", content |-> "msg", calls |-> <<>>, id |-> 0]
AssistantTurn(content, calls) ==
    [role |-> "assistant", content |-> content, calls |-> calls, id |-> 0]
ToolTurn(callId, text) ==
    [role |-> "tool", content |-> text, calls |-> <<>>, id |-> callId]

SliceDropsOne(h, n) == Tail(h)

SliceFirst(h, n) == IF Len(h) <= n THEN h ELSE SubSeq(h, 1, n)

\* history.slice(-n)
SliceLast(h, n) == IF Len(h) <= n THEN h ELSE SubSeq(h, Len(h) - n + 1, Len(h))

DropOneLeadingTool(h) ==
    IF Len(h) > 0 /\ Head(h).role = "tool" THEN Tail(h) ELSE h

RECURSIVE DropLeadingTools(_)
DropLeadingTools(h) ==
    IF Len(h) > 0 /\ Head(h).role = "tool" THEN DropLeadingTools(Tail(h)) ELSE h

DropHeadAssistant(h) ==
    IF Len(h) > 0 /\ Head(h).role = "assistant" /\ Len(Head(h).calls) > 0
    THEN Tail(h)
    ELSE h

DropDanglingAssistant(h) ==
    IF /\ Len(h) > 0
       /\ Head(h).role = "assistant"
       /\ Len(Head(h).calls) > 0
       /\ ~(Len(h) > 1 /\ h[2].role = "tool")
    THEN Tail(h)
    ELSE h

\* The trim of the handlers, for a bound of n turns
TrimTo(h, n) ==
    IF Len(h) > n
    THEN DropDanglingAssistant(DropLeadingTools(SliceLast(h, n)))
    ELSE h

TrimHistory(h) == TrimTo(h, MAX_HISTORY_LENGTH)


-----------------------------------------------------------------------------
(* Responses *)

\* op: the endpoint; status: the HTTP status; event: the last server-sent
\* event of a stream ("done", "error"), or what became of a booking mail;
\* uiResources: the field of that name in the body, {} when the body has
\* none and otherwise the set of its one value.
Reply(op, status, token, conv, serial, event) ==
    [op |-> op, status |-> status, token |-> token, conv |-> conv,
     serial |-> serial, event |-> event, uiResources |-> {}]

Resp(op, status, token, conv, serial) ==
    Reply(op, status, token, conv, serial, "")

NoResp == Resp("none", 0, NoToken, NoConv, 0)

-----------------------------------------------------------------------------
(* Session module *)

Known(token) == token \in DOMAIN sessions

ExpiredAtDeadline(token) == sessions[token].expiresAt <= now

\* session.expiresAt < now
Expired(token) == sessions[token].expiresAt < now

\* validateSessionToken: the session, or null; an expired session is deleted.
ValidateResult(token) == Known(token) /\ ~Expired(token)

ValidateEvictKnown(token) ==
    IF Known(token) THEN Remove(sessions, token) ELSE sessions

\* if (session.expiresAt < now) sessions.delete(token)
ValidateEvict(token) ==
    IF Known(token) /\ Expired(token) THEN Remove(sessions, token) ELSE sessions

DecrementNever(s, token) ==
    IF token \notin DOMAIN s THEN <<FALSE, s>>
    ELSE IF s[token].messagesRemaining <= 0 THEN <<FALSE, s>>
    ELSE <<TRUE, s>>

DecrementTwice(s, token) ==
    IF token \notin DOMAIN s THEN <<FALSE, s>>
    ELSE IF s[token].messagesRemaining <= 0 THEN <<FALSE, s>>
    ELSE <<TRUE, [s EXCEPT ![token].messagesRemaining = @ - 2]>>

\* decrementSessionMessages, on sessions map s: <<returned boolean, map after>>
DecrementSessionMessages(s, token) ==
    IF token \notin DOMAIN s THEN <<FALSE, s>>
    ELSE IF s[token].messagesRemaining <= 0 THEN <<FALSE, s>>
    ELSE <<TRUE, [s EXCEPT ![token].messagesRemaining = @ - 1]>>

IpLimitReachedLate(ip) ==
    /\ ip \in DOMAIN tokenCreationByIp
    /\ tokenCreationByIp[ip].resetAt > now
    /\ tokenCreationByIp[ip].count > MAX_TOKENS_PER_IP_PER_DAY

\* POST /session/create: the IP limit check
IpLimitReached(ip) ==
    /\ ip \in DOMAIN tokenCreationByIp
    /\ tokenCreationByIp[ip].resetAt > now
    /\ tokenCreationByIp[ip].count >= MAX_TOKENS_PER_IP_PER_DAY

IpTrackingForgetsCount(ip) ==
    Put(tokenCreationByIp, ip, [count |-> 1, resetAt |-> now + IP_WINDOW_HOURS])

IpTrackingNeverResets(ip) ==
    IF ip \in DOMAIN tokenCreationByIp
    THEN [tokenCreationByIp EXCEPT ![ip].count = @ + 1]
    ELSE Put(tokenCreationByIp, ip,
             [count |-> 1, resetAt |-> now + IP_WINDOW_HOURS])

\* POST /session/create: the IP tracking after a session is created.  The
\* record read at the start of the handler (ipData) is incremented when its
\* window is still open (resetAt > now), and replaced otherwise.
IpTrackingAfterCreate(ip) ==
    IF ip \in DOMAIN tokenCreationByIp /\ tokenCreationByIp[ip].resetAt > now
    THEN [tokenCreationByIp EXCEPT ![ip].count = @ + 1]
    ELSE Put(tokenCreationByIp, ip,
             [count |-> 1, resetAt |-> now + IP_WINDOW_HOURS])

NewSessionWithoutTtl(ip) ==
    [createdAt |-> now, expiresAt |-> now,
     messagesRemaining |-> MAX_MESSAGES_PER_TOKEN, ip |-> ip]

\* const session: SessionToken = {token, createdAt, expiresAt,
\* messagesRemaining: MAX_MESSAGES_PER_TOKEN, ip}
NewSession(ip) ==
    [createdAt |-> now, expiresAt |-> now + TOKEN_EXPIRY_HOURS,
     messagesRemaining |-> MAX_MESSAGES_PER_TOKEN, ip |-> ip]

\* The twin process: the code of the session module on the maps of unswept
UnsweptKnown(token) == token \in DOMAIN unswept.sessions
UnsweptExpired(token) == unswept.sessions[token].expiresAt < now
UnsweptValidateResult(token) == UnsweptKnown(token) /\ ~UnsweptExpired(token)
UnsweptValidateEvict(token) ==
    IF UnsweptKnown(token) /\ UnsweptExpired(token)
    THEN Remove(unswept.sessions, token) ELSE unswept.sessions

UnsweptIpLimitReached(ip) ==
    /\ ip \in DOMAIN unswept.tokenCreationByIp
    /\ unswept.tokenCreationByIp[ip].resetAt > now
    /\ unswept.tokenCreationByIp[ip].count >= MAX_TOKENS_PER_IP_PER_DAY

UnsweptIpTrackingAfterCreate(ip) ==
    IF /\ ip \in DOMAIN unswept.tokenCreationByIp
       /\ unswept.tokenCreationByIp[ip].resetAt > now
    THEN [unswept.tokenCreationByIp EXCEPT ![ip].count = @ + 1]
    ELSE Put(unswept.tokenCreationByIp, ip,
             [count |-> 1, resetAt |-> now + IP_WINDOW_HOURS])

UnsweptCreateStatus(ip) == IF UnsweptIpLimitReached(ip) THEN 429 ELSE 200

UnsweptValidateStatus(token) ==
    IF token = NoToken THEN 401
    ELSE IF ~UnsweptKnown(token) THEN 404
    ELSE IF UnsweptExpired(token) THEN 401
    ELSE 200

\* POST /session/create: the status of the response
CreateStatus(ip) == IF IpLimitReached(ip) THEN 429 ELSE 200

\* The twin process handles POST /session/create; the token is the one the
\* process itself mints for this request.
UnsweptCreate(ip) ==
    IF UnsweptCreateStatus(ip) = 429 THEN unswept
    ELSE [sessions |-> Put(unswept.sessions, Len(minted) + 1, NewSession(ip)),
          tokenCreationByIp |-> UnsweptIpTrackingAfterCreate(ip)]

\* The twin process handles a request that calls validateSessionToken (or
\* GET /session/validate, which evicts in the same way).
UnsweptValidate(token) ==
    [unswept EXCEPT !.sessions =
        IF token = NoToken THEN @ ELSE UnsweptValidateEvict(token)]

CreateSession(ip) ==
    /\ IF CreateStatus(ip) = 429
       THEN UNCHANGED <<sessions, tokenCreationByIp, minted>>
       ELSE LET token == Len(minted) + 1 IN
            /\ sessions' = Put(sessions, token, NewSession(ip))
            /\ tokenCreationByIp' = IpTrackingAfterCreate(ip)
            /\ minted' = Append(minted, [ip |-> ip, at |-> now])
    /\ unswept' = UnsweptCreate(ip)
    /\ UNCHANGED <<now, chatHistories, activeRequests, inflight, nAccepted,
                   last>>

\* GET /session/validate
ValidateStatus(token) ==
    IF token = NoToken THEN 401
    ELSE IF ~Known(token) THEN 404
    ELSE IF Expired(token) THEN 401
    ELSE 200

ValidateSession(token) ==
    /\ sessions' = IF token # NoToken /\ Known(token) /\ Expired(token)
                   THEN Remove(sessions, token) ELSE sessions
    /\ unswept' = UnsweptValidate(token)
    /\ UNCHANGED <<now, tokenCreationByIp, chatHistories, activeRequests,
                   inflight, minted, nAccepted, last>>

SweepSessionsAtDeadline ==
    [t \in {x \in DOMAIN sessions : ~(sessions[x].expiresAt <= now)}
        |-> sessions[t]]

\* The hourly setInterval callback
SweepSessions == [t \in {x \in DOMAIN sessions : ~(sessions[x].expiresAt < now)}
                    |-> sessions[t]]
SweepIps == [i \in {x \in DOMAIN tokenCreationByIp :
                        ~(tokenCreationByIp[x].resetAt < now)}
                |-> tokenCreationByIp[i]]

Sweep ==
    /\ sessions' = SweepSessions
    /\ tokenCreationByIp' = SweepIps
    /\ UNCHANGED <<now, chatHistories, activeRequests, inflight, minted,
                   nAccepted, last, unswept>>

\* Time passes.
Tick(step) ==
    /\ now' = now + step
    /\ UNCHANGED <<sessions, tokenCreationByIp, chatHistories, activeRequests,
                   inflight, minted, nAccepted, last, unswept>>


-----------------------------------------------------------------------------
(* AI agent module: the handler state kept across awaits *)

\* A model response: its content, the ids of its tool calls, the index of
\* the first tool call whose arguments JSON.parse rejects (0: none), and
\* the index of a tool call whose type is not 'function' (0: none).
ModelMsgOf(content, calls, bad, custom) ==
    [content |-> content, calls |-> calls, bad |-> bad, custom |-> custom]

\* A model response whose tool calls all are of type 'function'
ModelMsg(content, calls, bad) == ModelMsgOf(content, calls, bad, 0)

NoMsg == ModelMsg("", <<>>, 0)

\* The ids of the n tool calls of the response to model call number k of
\* exchange number serial (the provider's ids are unique).
CallIds(serial, k, n) == [i \in 1..n |-> serial * 100 + k * 10 + i]

ConvsInUse ==
    activeRequests \cup DOMAIN chatHistories \cup {r.conv : r \in inflight}

\* randomUUID(): an id no conversation has
HasFreshConv == Convs \ ConvsInUse # {}
FreshConv == CHOOSE c \in Convs \ ConvsInUse : \A d \in Convs \ ConvsInUse : c <= d

\* request.body.sessionId || randomUUID()
SessionIdOf(sid) == IF sid = NoConv THEN FreshConv ELSE sid

\* chatHistories.get(sessionId) || []
HistoryOf(conv) ==
    IF conv \in DOMAIN chatHistories THEN chatHistories[conv] ELSE <<>>

\* history is the stored array itself when the map has one: a push on it
\* shows in chatHistories at once.
WriteThrough(r) ==
    IF r.aliased THEN [chatHistories EXCEPT ![r.conv] = r.history]
    ELSE chatHistories

GuardNeverHeld(conv) == FALSE

\* activeRequests.get(sessionId)
GuardHeld(conv) == conv \in activeRequests

ReleaseAll(conv) == {}

\* finally { activeRequests.delete(sessionId) }
Release(conv) == activeRequests \ {conv}

OpOf(kind) == IF kind = "stream" THEN "stream" ELSE "chat"

ErrorReplyWithoutStatus(r) ==
    Reply(OpOf(r.kind), 200, r.token, r.conv, r.serial, "error")

ErrorReplyMarksDone(r) ==
    IF r.kind = "stream"
    THEN Reply("stream", 200, r.token, r.conv, r.serial, "done")
    ELSE Resp("chat", 500, r.token, r.conv, r.serial)

\* The catch block: 500 on /ai/chat, an error event on /ai/chat/stream.
ErrorReply(r) ==
    IF r.kind = "stream"
    THEN Reply("stream", 200, r.token, r.conv, r.serial, "error")
    ELSE Resp("chat", 500, r.token, r.conv, r.serial)

\* The handler invocations other than that of request r
Others(r) == {q \in inflight : q.serial # r.serial}

AbortKeepsGuard(r) ==
    /\ last' = ErrorReply(r)
    /\ inflight' = Others(r)
    /\ chatHistories' = WriteThrough(r)
    /\ UNCHANGED <<now, sessions, tokenCreationByIp, activeRequests, minted,
                   nAccepted, unswept>>

\* An exception inside the try block of request r
Abort(r) ==
    /\ last' = ErrorReply(r)
    /\ activeRequests' = Release(r.conv)
    /\ inflight' = Others(r)
    /\ chatHistories' = WriteThrough(r)
    /\ UNCHANGED <<now, sessions, tokenCreationByIp, minted, nAccepted,
                   unswept>>

\* r goes on, suspended at its next await.
Suspend(r) ==
    /\ inflight' = Others(r) \cup {r}
    /\ chatHistories' = WriteThrough(r)
    /\ UNCHANGED <<now, sessions, tokenCreationByIp, activeRequests, minted,
                   nAccepted, last, unswept>>

CollidesNever(sid) == FALSE

ChatStatusLaxQuota(message, token, sid) ==
    IF message = "empty" THEN 400
    ELSE IF token = NoToken THEN 401
    ELSE IF ~ValidateResult(token) THEN 401
    ELSE IF sessions[token].messagesRemaining < 0 THEN 403
    ELSE IF message = "long" THEN 400
    ELSE IF sid # NoConv /\ GuardHeld(sid) THEN 429
    ELSE 0

\* A request without sessionId gets a fresh id, which no request holds.
Collides(sid) == sid # NoConv /\ GuardHeld(sid)

\* POST /ai/chat and POST /ai/chat/stream: the status of the rejection of
\* a request before the try block; 0 when the request is not rejected.
\* message is "empty", "ok" or "long"; sid is the sessionId of the body or
\* NoConv.
ChatStatus(message, token, sid) ==
    IF message = "empty" THEN 400
    ELSE IF token = NoToken THEN 401
    ELSE IF ~ValidateResult(token) THEN 401
    ELSE IF sessions[token].messagesRemaining <= 0 THEN 403
    ELSE IF message = "long" THEN 400
    ELSE IF Collides(sid) THEN 429
    ELSE 0

\* The twin process: the checks of the chat handlers, and what a chat
\* request does to its sessions (the guard and the transcripts are those of
\* the process itself).
UnsweptChatStatus(message, token, sid) ==
    IF message = "empty" THEN 400
    ELSE IF token = NoToken THEN 401
    ELSE IF ~UnsweptValidateResult(token) THEN 401
    ELSE IF unswept.sessions[token].messagesRemaining <= 0 THEN 403
    ELSE IF message = "long" THEN 400
    ELSE IF Collides(sid) THEN 429
    ELSE 0

UnsweptChat(message, token, sid) ==
    IF UnsweptChatStatus(message, token, sid) # 0
    THEN IF message # "empty" THEN UnsweptValidate(token) ELSE unswept
    ELSE [unswept EXCEPT !.sessions =
            DecrementSessionMessages(unswept.sessions, token)[2]]

\* The handler invocation of an accepted request, at its first model call
NewRequest(kind, token, conv) ==
    [kind |-> kind, token |-> token, conv |-> conv, serial |-> nAccepted + 1,
     aliased |-> conv \in DOMAIN chatHistories,
     history |-> Append(HistoryOf(conv), UserTurn),
     msg |-> NoMsg, iterations |-> 0, idx |-> 0, pc |-> "model",
     modelCalls |-> 1, uiResources |-> <<>>, chunks |-> 0]

\* The try block up to the first model call: the guard is set, the user
\* message pushed, the session decremented.
Accept(kind, token, conv) ==
    LET dec == DecrementSessionMessages(sessions, token)
        r == NewRequest(kind, token, conv)
    IN
    /\ nAccepted' = nAccepted + 1
    /\ sessions' = dec[2]
    /\ chatHistories' = WriteThrough(r)
    /\ IF dec[1]
       THEN /\ activeRequests' = activeRequests \cup {conv}
            /\ inflight' = inflight \cup {r}
            /\ UNCHANGED last
       ELSE /\ activeRequests' = Release(conv)
            /\ UNCHANGED inflight
            /\ last' = Resp(OpOf(kind), 500, token, conv, r.serial)
    /\ UNCHANGED <<now, tokenCreationByIp, minted>>

\* POST /ai/chat and POST /ai/chat/stream, from the request to the first
\* model call
ChatRequest(kind, message, token, sid) ==
    /\ unswept' = UnsweptChat(message, token, sid)
    /\ IF ChatStatus(message, token, sid) # 0
       THEN /\ sessions' = IF message # "empty" /\ token # NoToken
                           THEN ValidateEvict(token) ELSE sessions
            /\ UNCHANGED <<now, tokenCreationByIp, chatHistories,
                           activeRequests, inflight, minted, nAccepted, last>>
       ELSE /\ sid = NoConv => HasFreshConv
            /\ Accept(kind, token, SessionIdOf(sid))

\* if (uiResources.length > 0) chatResponse.uiResources = uiResources
UiResourcesField(u) == IF Len(u) > 0 THEN {u} ELSE {}

\* The end of the try block: the final assistant message, the trim, the
\* save, the response and the release of the guard.
Finalize(r, content) ==
    LET history == Append(r.history, AssistantTurn(content, <<>>)) IN
    /\ chatHistories' = Put(chatHistories, r.conv, TrimHistory(history))
    /\ last' = [Reply(OpOf(r.kind), 200, r.token, r.conv, r.serial,
                      IF r.kind = "stream" THEN "done" ELSE "")
                    EXCEPT !.uiResources = UiResourcesField(r.uiResources)]
    /\ activeRequests' = Release(r.conv)
    /\ inflight' = Others(r)
    /\ UNCHANGED <<now, sessions, tokenCreationByIp, minted, nAccepted,
                   unswept>>

\* if (toolCall.type !== 'function') continue: the index of the call the
\* loop goes on with when it is at call number i
SkipToFunction(msg, i) ==
    IF i <= Len(msg.calls) /\ msg.custom = i THEN i + 1 ELSE i

\* The for loop over the tool calls of r.msg, at call number i: the next
\* executeToolCall, or after the last call the next model call.
Dispatch(r, i) ==
    LET j == SkipToFunction(r.msg, i) IN
    IF j > Len(r.msg.calls)
    THEN Suspend([r EXCEPT !.pc = "model", !.idx = 0,
                           !.modelCalls = @ + 1])
    ELSE IF r.msg.bad = j
    THEN Abort(r)
    ELSE Suspend([r EXCEPT !.pc = "tool", !.idx = j])

LoopContinuesUncapped(r, msg) == Len(msg.calls) > 0

LoopContinuesOneMore(r, msg) ==
    Len(msg.calls) > 0 /\ r.iterations <= maxIterations

\* while (tool_calls && tool_calls.length > 0 && iterations < maxIterations)
LoopContinues(r, msg) == Len(msg.calls) > 0 /\ r.iterations < maxIterations

ModelReplyRetries(r, ok, content, n, bad) ==
    /\ r \in inflight /\ r.pc = "model"
    /\ IF ~ok THEN Suspend([r EXCEPT !.modelCalls = @ + 1])
       ELSE LET msg == ModelMsg(content, CallIds(r.serial, r.modelCalls, n), bad) IN
            IF LoopContinues(r, msg)
            THEN Dispatch([r EXCEPT !.msg = msg, !.iterations = @ + 1,
                                    !.history = Append(@, AssistantTurn(content, msg.calls))],
                          1)
            ELSE IF r.kind = "stream"
            THEN Suspend([r EXCEPT !.msg = msg, !.pc = "stream",
                                   !.modelCalls = @ + 1])
            ELSE Finalize(r, content)

ModelResponseSendsContent(r, ok, msg) ==
    /\ r \in inflight /\ r.pc = "model"
    /\ IF ~ok THEN Abort(r)
       ELSE IF LoopContinues(r, msg)
       THEN Dispatch([r EXCEPT !.msg = msg, !.iterations = @ + 1,
                               !.history = Append(@, AssistantTurn(msg.content,
                                                                   msg.calls))],
                     1)
       ELSE Finalize(r, msg.content)

ModelResponseUncounted(r, ok, msg) ==
    /\ r \in inflight /\ r.pc = "model"
    /\ IF ~ok THEN Abort(r)
       ELSE IF LoopContinues(r, msg)
       THEN Dispatch([r EXCEPT !.msg = msg,
                               !.history = Append(@, AssistantTurn(msg.content,
                                                                   msg.calls))],
                     1)
       ELSE IF r.kind = "stream"
       THEN Suspend([r EXCEPT !.msg = msg, !.pc = "stream",
                              !.modelCalls = @ + 1])
       ELSE Finalize(r, msg.content)

\* A model call of the tool loop returns.  ok: the provider answered with
\* message msg; otherwise the call threw or the response had no choice.
ModelResponse(r, ok, msg) ==
    /\ r \in inflight /\ r.pc = "model"
    /\ IF ~ok THEN Abort(r)
       ELSE IF LoopContinues(r, msg)
       THEN Dispatch([r EXCEPT !.msg = msg, !.iterations = @ + 1,
                               !.history = Append(@, AssistantTurn(msg.content,
                                                                   msg.calls))],
                     1)
       ELSE IF r.kind = "stream"
       THEN Suspend([r EXCEPT !.msg = msg, !.pc = "stream",
                              !.modelCalls = @ + 1])
       ELSE Finalize(r, msg.content)

\* The response is a message with content and n tool calls of type
\* 'function'.
ModelReply(r, ok, content, n, bad) ==
    ModelResponse(r, ok,
                  ModelMsg(content, CallIds(r.serial, r.modelCalls, n), bad))

\* The provider answers with n tool calls of which the one at index custom
\* is not of type 'function'.
ModelReplyCustom(r, content, n, custom) ==
    ModelResponse(r, TRUE,
                  ModelMsgOf(content, CallIds(r.serial, r.modelCalls, n), 0,
                             custom))

\* toolResult.text: the text of a UI tool that returns a uiResource, or
\* the text of any other result
ToolText(outcome) == IF outcome = "ui" THEN "shown" ELSE "result"

CollectUiResourceFirst(kind, u, outcome, callId) ==
    IF outcome = "ui" /\ kind = "chat" THEN <<callId>> \o u ELSE u

\* if (toolResult.uiResource) uiResources.push(toolResult.uiResource), in
\* the /ai/chat handler; the stream handler collects none.  The uiResource
\* of a call is named by the id of the call.
CollectUiResource(kind, u, outcome, callId) ==
    IF outcome = "ui" /\ kind = "chat" THEN Append(u, callId) ELSE u

\* executeToolCall returns for tool call r.idx.  outcome: "text" (a text
\* result, also the fallback text of a tool that caught its own failure),
\* "ui" (text and a uiResource), "throw" (the handler threw).
ToolReply(r, outcome) ==
    /\ r \in inflight /\ r.pc = "tool"
    /\ IF outcome = "throw" THEN Abort(r)
       ELSE LET callId == r.msg.calls[r.idx] IN
            Dispatch([r EXCEPT
                        !.uiResources = CollectUiResource(r.kind, @, outcome,
                                                          callId),
                        !.history = Append(@, ToolTurn(callId,
                                                       ToolText(outcome)))],
                     r.idx + 1)

StreamOpenKeepsDraft(r, ok) ==
    /\ r \in inflight /\ r.pc = "stream"
    /\ IF ok
       THEN Suspend([r EXCEPT !.pc = "chunks",
                              !.history = Append(@, AssistantTurn(r.msg.content,
                                                                  <<>>))])
       ELSE Abort(r)

\* The streaming call of /ai/chat/stream returns its stream, or throws.
StreamOpen(r, ok) ==
    /\ r \in inflight /\ r.pc = "stream"
    /\ IF ok THEN Suspend([r EXCEPT !.pc = "chunks"]) ELSE Abort(r)

\* for await (const chunk of stream): a chunk with content is written as an
\* event, the end of the stream finalizes, a broken stream throws.
StreamNext(r, what) ==
    /\ r \in inflight /\ r.pc = "chunks"
    /\ CASE what = "chunk" -> Suspend([r EXCEPT !.chunks = @ + 1])
         [] what = "end" -> Finalize(r, IF r.chunks > 0 THEN "text" ELSE "")
         [] OTHER -> Abort(r)

-----------------------------------------------------------------------------
(* POST /ai/chat statement by statement: the synchronous segments of the    *)
(* handler as sequences of steps.  A handler between two of these steps has *)
(* the thread: nothing else runs until it reaches an await or returns.      *)

\* The positions inside the synchronous segments: after the checks of the
\* message, the session and the quota; after activeRequests.set; after the
\* push of the user message; after the push of the final message; after
\* chatHistories.set; after the finally block.
SyncPcs == {"checked", "acquired", "appended", "final", "saved", "released"}

RunningNever == FALSE

\* A handler is inside a synchronous segment.
Running == \E r \in inflight : r.pc \in SyncPcs

\* The checks of the message, the session, the quota and the length
\* (390-442); a request that passes is at the guard check.
StepCheck(message, token, sid) ==
    /\ sessions' = IF message # "empty" /\ token # NoToken
                   THEN ValidateEvict(token) ELSE sessions
    /\ unswept' = IF message # "empty" THEN UnsweptValidate(token) ELSE unswept
    /\ IF ChatStatus(message, token, NoConv) # 0
       THEN UNCHANGED inflight
       ELSE /\ sid = NoConv => HasFreshConv
            /\ inflight' = inflight \cup
                  {[NewRequest("chat", token, SessionIdOf(sid)) EXCEPT
                        !.pc = "checked", !.history = <<>>,
                        !.aliased = FALSE, !.modelCalls = 0]}
    /\ UNCHANGED <<now, tokenCreationByIp, chatHistories, activeRequests,
                   minted, nAccepted, last>>

StepAcquireSkipsGuard(r) ==
    /\ r \in inflight /\ r.pc = "checked"
    /\ inflight' = Others(r) \cup {[r EXCEPT !.pc = "acquired"]}
    /\ nAccepted' = nAccepted + 1
    /\ UNCHANGED <<now, sessions, tokenCreationByIp, chatHistories,
                   activeRequests, minted, last, unswept>>

\* The guard check and activeRequests.set (445-457)
StepAcquire(r) ==
    /\ r \in inflight /\ r.pc = "checked"
    /\ IF GuardHeld(r.conv)
       THEN /\ inflight' = Others(r)
            /\ UNCHANGED <<activeRequests, nAccepted>>
       ELSE /\ activeRequests' = activeRequests \cup {r.conv}
            /\ inflight' = Others(r) \cup {[r EXCEPT !.pc = "acquired"]}
            /\ nAccepted' = nAccepted + 1
    /\ UNCHANGED <<now, sessions, tokenCreationByIp, chatHistories, minted,
                   last, unswept>>

\* history = chatHistories.get(sessionId) || []; history.push(user message)
\* (461-467)
StepAppend(r) ==
    /\ r \in inflight /\ r.pc = "acquired"
    /\ Suspend([r EXCEPT !.pc = "appended",
                         !.aliased = r.conv \in DOMAIN chatHistories,
                         !.history = Append(HistoryOf(r.conv), UserTurn)])

\* decrementSessionMessages and, when it succeeds, the first model call
\* (470-498)
StepDecrement(r) ==
    LET dec == DecrementSessionMessages(sessions, r.token) IN
    /\ r \in inflight /\ r.pc = "appended"
    /\ sessions' = dec[2]
    /\ unswept' = [unswept EXCEPT !.sessions =
                      DecrementSessionMessages(@, r.token)[2]]
    /\ IF dec[1]
       THEN /\ inflight' = Others(r) \cup
                              {[r EXCEPT !.pc = "model", !.modelCalls = 1]}
            /\ UNCHANGED <<activeRequests, last>>
       ELSE /\ inflight' = Others(r)
            /\ activeRequests' = Release(r.conv)
            /\ last' = Resp("chat", 500, r.token, r.conv, r.serial)
    /\ UNCHANGED <<now, tokenCreationByIp, chatHistories, minted, nAccepted>>

\* The response that ends the loop, and the push of the final assistant
\* message (559-569)
StepFinalAppend(r, content) ==
    /\ r \in inflight /\ r.pc = "model" /\ r.kind = "chat"
    /\ Suspend([r EXCEPT !.pc = "final",
                         !.msg = ModelMsg(content, <<>>, 0),
                         !.history = Append(@, AssistantTurn(content, <<>>))])

\* The trim and chatHistories.set (571-605)
StepTrimSave(r) ==
    /\ r \in inflight /\ r.pc = "final"
    /\ chatHistories' = Put(chatHistories, r.conv, TrimHistory(r.history))
    /\ inflight' = Others(r) \cup {[r EXCEPT !.pc = "saved"]}
    /\ UNCHANGED <<now, sessions, tokenCreationByIp, activeRequests, minted,
                   nAccepted, last, unswept>>

\* return chatResponse runs the finally block before the reply is sent
\* (618, 625-628)
StepRelease(r) ==
    /\ r \in inflight /\ r.pc = "saved"
    /\ activeRequests' = Release(r.conv)
    /\ inflight' = Others(r) \cup {[r EXCEPT !.pc = "released"]}
    /\ UNCHANGED <<now, sessions, tokenCreationByIp, chatHistories, minted,
                   nAccepted, last, unswept>>

\* The reply is sent with the value the handler returned (608-618)
StepRespond(r) ==
    /\ r \in inflight /\ r.pc = "released"
    /\ last' = [Resp("chat", 200, r.token, r.conv, r.serial)
                    EXCEPT !.uiResources = UiResourcesField(r.uiResources)]
    /\ inflight' = Others(r)
    /\ UNCHANGED <<now, sessions, tokenCreationByIp, chatHistories,
                   activeRequests, minted, nAccepted, unswept>>

\* DELETE /ai/chat/:sessionId.  A handler suspended on this conversation
\* keeps the array, which is no longer the stored one.
ClearChat(conv) ==
    /\ chatHistories' = Remove(chatHistories, conv)
    /\ inflight' = {IF r.conv = conv THEN [r EXCEPT !.aliased = FALSE] ELSE r :
                    r \in inflight}
    /\ UNCHANGED <<now, sessions, tokenCreationByIp, activeRequests, minted,
                   nAccepted, last, unswept>>

\* executeToolCall('send_booking_inquiry', args): "sent" when sendEmail was
\* called and returned, otherwise the reason no mail went out.  configured:
\* config.gmail has an email and a password.
SendBookingInquiry(configured, hasContact, location, mailOk) ==
    IF ~configured THEN "not_configured"
    ELSE IF ~hasContact THEN "no_contact"
    ELSE IF location = "none" THEN "no_location"
    ELSE IF location = "out" THEN "out_of_area"
    ELSE IF mailOk THEN "sent"
    ELSE "send_failed"

\* POST /ai/send-booking: the status of the response
BookingStatus(token, configured, hasContact, location, mailOk) ==
    IF token = NoToken \/ ~ValidateResult(token) THEN 401
    ELSE IF SendBookingInquiry(configured, hasContact, location, mailOk) = "sent"
    THEN 200
    ELSE 500

\* POST /ai/send-booking
SendBooking(token, configured, hasContact, location, mailOk) ==
    /\ sessions' = IF token = NoToken THEN sessions ELSE ValidateEvict(token)
    /\ unswept' = UnsweptValidate(token)
    /\ UNCHANGED <<now, tokenCreationByIp, chatHistories, activeRequests,
                   inflight, minted, nAccepted, last>>

\* The arguments of a send_booking_inquiry call: an object with or without
\* contact (email or phone) and location, or no object (null, undefined).
BookingArgs ==
    {[present |-> FALSE, hasContact |-> FALSE, location |-> "none"]}
    \cup {[present |-> TRUE, hasContact |-> c, location |-> l] :
             c \in BOOLEAN, l \in {"none", "in", "out"}}

\* executeToolCall('send_booking_inquiry', args): const {...} = args
\* throws when args is no object, before the try block is entered.
ExecuteSendBooking(args, configured, mailOk) ==
    IF ~args.present THEN "throw"
    ELSE SendBookingInquiry(configured, args.hasContact, args.location, mailOk)

\* What the tool loop gets from executeToolCall
ToolOutcome(result) == IF result = "throw" THEN "throw" ELSE "text"

\* POST /ai/send-booking with its response: event is what became of the
\* call of executeToolCall ("" when the session was refused).
SendBookingAnswered(token, args, configured, mailOk) ==
    LET refused == token = NoToken \/ ~ValidateResult(token)
        result == ExecuteSendBooking(args, configured, mailOk)
    IN
    /\ sessions' = IF token = NoToken THEN sessions ELSE ValidateEvict(token)
    /\ unswept' = UnsweptValidate(token)
    /\ last' = Reply("booking",
                     IF refused THEN 401 ELSE IF result = "sent" THEN 200
                     ELSE 500,
                     token, NoConv, 0, IF refused THEN "" ELSE result)
    /\ UNCHANGED <<now, tokenCreationByIp, chatHistories, activeRequests,
                   inflight, minted, nAccepted>>

-----------------------------------------------------------------------------
(* The system *)

Init ==
    /\ now = 0
    /\ sessions = EmptyMap
    /\ tokenCreationByIp = EmptyMap
    /\ chatHistories = EmptyMap
    /\ activeRequests = {}
    /\ inflight = {}
    /\ minted = <<>>
    /\ nAccepted = 0
    /\ last = NoResp
    /\ unswept = [sessions |-> EmptyMap, tokenCreationByIp |-> EmptyMap]

Kinds == {"chat", "stream"}
Messages == {"empty", "ok", "long"}
Contents == {"", "text"}
Locations == {"none", "in", "out"}

\* The tokens a client can send: none, a minted one, one never minted.
TokenInputs == 0..(Len(minted) + 1)

\* Booking requests, one for each way send_booking_inquiry can go:
\* <<configured, hasContact, location, mailOk>>
BookingInputs ==
    {<<FALSE, TRUE, "in", TRUE>>, <<TRUE, FALSE, "in", TRUE>>,
     <<TRUE, TRUE, "none", TRUE>>, <<TRUE, TRUE, "out", TRUE>>,
     <<TRUE, TRUE, "in", TRUE>>, <<TRUE, TRUE, "in", FALSE>>}

\* Requests to the session module, while fewer than maxTokens were minted
SessionRequests(ips, maxTokens) ==
    \/ /\ Len(minted) < maxTokens
       /\ \E ip \in ips : CreateSession(ip)
    \/ \E t \in TokenInputs : ValidateSession(t)

\* The clock and the sweep timer
Clock(maxTime, step) ==
    \/ Sweep
    \/ now + step <= maxTime /\ Tick(step)

\* Chat requests with a sessionId of sids (NoConv: none given)
ChatRequests(maxExchanges, maxInFlight, sids) ==
    /\ nAccepted < maxExchanges
    /\ Cardinality(inflight) < maxInFlight
    /\ \E k \in Kinds, m \in Messages, t \in TokenInputs, c \in sids :
         ChatRequest(k, m, t, c)

\* The model provider answers a model call of the tool loop: it fails, or
\* answers with plain content.
ModelAnswers ==
    \E r \in inflight :
      \/ ModelReply(r, FALSE, "", 0, 0)
      \/ \E content \in Contents : ModelReply(r, TRUE, content, 0, 0)

\* The model provider answers with tool calls: in at most maxRounds
\* responses of one exchange, with at most maxCalls calls each.
ModelAsksTools(maxRounds, maxCalls) ==
    \E r \in inflight :
      /\ r.modelCalls <= maxRounds
      /\ \E n \in 1..maxCalls, bad \in 0..maxCalls :
           bad <= n /\ ModelReply(r, TRUE, "", n, bad)

\* The model provider answers with tool calls of which one is not of type
\* 'function'.
ModelAsksCustom(maxRounds, maxCalls) ==
    \E r \in inflight :
      /\ r.modelCalls <= maxRounds
      /\ \E n \in 1..maxCalls, custom \in 1..maxCalls :
           custom <= n /\ ModelReplyCustom(r, "", n, custom)

ToolsAnswer(outcomes) == \E r \in inflight, o \in outcomes : ToolReply(r, o)

StreamAnswers ==
    \/ \E r \in inflight, ok \in BOOLEAN : StreamOpen(r, ok)
    \/ \E r \in inflight, w \in {"chunk", "end", "error"} :
         /\ w = "chunk" => r.chunks < MaxChunks
         /\ StreamNext(r, w)

Booking(bookings) ==
    \E t \in TokenInputs, b \in bookings : SendBooking(t, b[1], b[2], b[3], b[4])

(* Spec: the whole system, with up to MaxInFlight exchanges at once        *)

Next ==
    \/ SessionRequests(Ips, MaxTokens)
    \/ Clock(MaxTime, Day)
    \/ ChatRequests(MaxExchanges, MaxInFlight, {NoConv} \cup Convs)
    \/ ModelAnswers
    \/ ModelAsksTools(MaxToolRounds, MaxToolCalls)
    \/ ToolsAnswer({"text", "throw"})
    \/ StreamAnswers
    \/ \E c \in Convs : ClearChat(c)
    \/ Booking({<<TRUE, TRUE, "in", TRUE>>})

Spec == Init /\ [][Next]_vars

(* SpecQuota: the life of one session, from its creation to the end of its *)
(* quota or of its time.  The client sends its messages one after the      *)
(* other, and every message starts a conversation.                         *)

NextQuota ==
    \/ minted = <<>> /\ CreateSession(1)
    \/ \E t \in TokenInputs : ValidateSession(t)
    \/ Clock(MaxTime, Day)
    \/ inflight = {} /\ ChatRequests(MAX_MESSAGES_PER_TOKEN + 1, MaxInFlight, {NoConv})
    \/ ModelAnswers
    \/ StreamAnswers
    \/ \E c \in Convs : ClearChat(c)
    \/ Booking({<<TRUE, TRUE, "in", TRUE>>})

SpecQuota == Init /\ [][NextQuota]_vars

(* SpecLedger: the session module alone, over two days                     *)

NextLedger ==
    \/ SessionRequests(1..LedgerIps, LedgerTokens)
    \/ Clock(MaxTime, HalfDay)

SpecLedger == Init /\ [][NextLedger]_vars

(* SpecSweep: the session module with one origin, chat and booking         *)
(* requests, over two days; the twin process gets the same requests        *)

NextSweep ==
    \/ SessionRequests(Ips, SweepTokens)
    \/ Clock(MaxTime, HalfDay)
    \/ ChatRequests(MaxExchanges, 1, {NoConv})
    \/ ModelAnswers
    \/ Booking({<<TRUE, TRUE, "in", TRUE>>})

SpecSweep == Init /\ [][NextSweep]_vars

(* SpecLoop: the exchanges of one conversation, one after the other, with  *)
(* a model that may ask for tools in every response                        *)

\* The response that meets the iteration cap: tool calls, with or without
\* content
ModelAsksToolsAtCap(maxCalls) ==
    \E r \in inflight :
      /\ r.iterations = maxIterations
      /\ \E n \in 1..maxCalls : ModelReply(r, TRUE, "text", n, 0)

NextLoop ==
    \/ minted = <<>> /\ CreateSession(1)
    \/ inflight = {} /\ ChatRequests(LoopExchanges, MaxInFlight, {1})
    \/ ModelAnswers
    \/ ModelAsksTools(maxIterations + 1, LoopToolCalls)
    \/ ModelAsksToolsAtCap(LoopToolCalls)
    \/ ToolsAnswer({"text", "throw"})
    \/ StreamAnswers

SpecLoop == Init /\ [][NextLoop]_vars

(* SpecTools: the exchanges of one conversation, one after the other, with  *)
(* tools that return text, text and a uiResource, or throw, and with tool   *)
(* calls that are not of type 'function'                                    *)

NextTools ==
    \/ minted = <<>> /\ CreateSession(1)
    \/ inflight = {} /\ ChatRequests(ToolsExchanges, MaxInFlight, {1})
    \/ ModelAnswers
    \/ ModelAsksTools(ToolsRounds, LoopToolCalls)
    \/ ModelAsksCustom(ToolsRounds, LoopToolCalls)
    \/ ToolsAnswer({"text", "ui", "throw"})
    \/ StreamAnswers

SpecTools == Init /\ [][NextTools]_vars

(* SpecTrim: the exchanges of one conversation, one after the other, with  *)
(* responses of one tool call, of type 'function' or not, up to the         *)
(* iteration cap                                                            *)

NextTrim ==
    \/ minted = <<>> /\ CreateSession(1)
    \/ inflight = {} /\ ChatRequests(LoopExchanges, MaxInFlight, {1})
    \/ ModelAnswers
    \/ ModelAsksTools(maxIterations + 1, MaxToolCalls)
    \/ ModelAsksCustom(maxIterations + 1, MaxToolCalls)
    \/ ToolsAnswer({"text"})
    \/ StreamAnswers

SpecTrim == Init /\ [][NextTrim]_vars

(* SpecSteps: POST /ai/chat statement by statement, with up to            *)
(* MaxInFlight handlers at once on one conversation or on fresh ones        *)

\* Requests to POST /ai/chat with a sessionId of sids; the handler runs up
\* to the guard check.
StepRequests(maxExchanges, sids) ==
    /\ nAccepted < maxExchanges
    /\ Cardinality(inflight) < MaxInFlight
    /\ \E m \in Messages, t \in TokenInputs, c \in sids : StepCheck(m, t, c)

\* The next step of the handler that has the thread, up to its first model
\* call
StepsIn == \E r \in inflight :
               StepAcquire(r) \/ StepAppend(r) \/ StepDecrement(r)

\* The next step of the handler that has the thread, after its last model
\* call
StepsOut == \E r \in inflight :
                StepTrimSave(r) \/ StepRelease(r) \/ StepRespond(r)

\* The provider ends the loop of a handler with plain content.
ModelEndsLoop ==
    \E r \in inflight, content \in Contents : StepFinalAppend(r, content)

ModelFails == \E r \in inflight : ModelReply(r, FALSE, "", 0, 0)

NextSteps ==
    \/ minted = <<>> /\ CreateSession(1)
    \/ ~Running /\ StepRequests(StepsExchanges, {NoConv, 1})
    \/ StepsIn
    \/ ~Running /\ ModelFails
    \/ ~Running /\ ModelAsksTools(MaxToolRounds, MaxToolCalls)
    \/ ~Running /\ ToolsAnswer({"text"})
    \/ ~Running /\ ModelEndsLoop
    \/ StepsOut

SpecSteps == Init /\ [][NextSteps]_vars

(* SpecRace: the quota of one session under concurrent requests to POST    *)
(* /ai/chat, statement by statement, each on a conversation of its own or   *)
(* on the conversation of an exchange in flight                             *)

NextRace ==
    \/ minted = <<>> /\ CreateSession(1)
    \/ ~Running /\ StepRequests(MAX_MESSAGES_PER_TOKEN + 1,
                                {NoConv} \cup activeRequests)
    \/ StepsIn
    \/ ~Running /\ ModelFails
    \/ ~Running /\ ModelEndsLoop
    \/ StepsOut
    \/ ~Running /\ \E c \in Convs : ClearChat(c)

SpecRace == Init /\ [][NextRace]_vars

(* SpecReject: the life of one session whose client starts a conversation *)
(* with every message, and while an exchange is in flight sends messages    *)
(* on the conversation of that exchange                                     *)

NextReject ==
    \/ minted = <<>> /\ CreateSession(1)
    \/ Clock(MaxTime, Day)
    \/ inflight = {} /\ ChatRequests(MAX_MESSAGES_PER_TOKEN + 1, MaxInFlight,
                                     {NoConv})
    \/ inflight # {} /\ ChatRequests(MAX_MESSAGES_PER_TOKEN + 1, MaxInFlight,
                                     activeRequests)
    \/ ModelAnswers
    \/ StreamAnswers

SpecReject == Init /\ [][NextReject]_vars

(* SpecPair: pairs of exchanges, one on POST /ai/chat for conversation 1    *)
(* and one on POST /ai/chat/stream for conversation 2, to which the         *)
(* provider and the tools give the same answers: the plain exchange takes   *)
(* a step, then the streaming exchange takes the same step                  *)

\* The roles, the tool calls and the tool call ids of transcript h, each id
\* without the number of its exchange
Shape(h) ==
    [i \in 1..Len(h) |->
        <<h[i].role,
          [j \in 1..Len(h[i].calls) |-> h[i].calls[j] % 100],
          h[i].id % 100>>]

\* The shape of the transcript stored for conversation c in map m: <<>>
\* when none is stored
StoredShape(m, c) == IF c \in DOMAIN m THEN <<Shape(m[c])>> ELSE <<>>

PlainOf(rs) == {r \in rs : r.kind = "chat"}
StreamedOf(rs) == {r \in rs : r.kind = "stream"}

\* Two handlers are at the same await of the tool loop.
SamePos(a, b) ==
    /\ a.pc = b.pc /\ a.idx = b.idx
    /\ a.modelCalls = b.modelCalls /\ a.iterations = b.iterations

\* A pair starts when both conversations have transcripts of the same
\* shape: first the request to /ai/chat, then the one to /ai/chat/stream.
PairRequests ==
    \/ /\ inflight = {} /\ nAccepted < PairExchanges
       /\ StoredShape(chatHistories, 1) = StoredShape(chatHistories, 2)
       /\ \E m \in Messages, t \in TokenInputs : ChatRequest("chat", m, t, 1)
    \/ /\ StreamedOf(inflight) = {}
       /\ \E a \in PlainOf(inflight) : a.modelCalls = 1 /\ a.pc = "model"
       /\ \E m \in Messages, t \in TokenInputs : ChatRequest("stream", m, t, 2)

\* The provider answers a model call of the plain exchange: it fails, ends
\* the loop with content, or asks for n tool calls of which one may not be
\* of type 'function'.
PlainModel ==
    \E a \in PlainOf(inflight), b \in StreamedOf(inflight) :
      /\ SamePos(a, b)
      /\ \/ ModelReply(a, FALSE, "", 0, 0)
         \/ \E content \in Contents : ModelReply(a, TRUE, content, 0, 0)
         \/ /\ a.modelCalls <= PairRounds
            /\ \E n \in 1..LoopToolCalls, custom \in 0..LoopToolCalls :
                 /\ custom <= n
                 /\ ModelReplyCustom(a, "", n, custom)

\* A tool call of the plain exchange returns or throws.
PlainTool ==
    \E a \in PlainOf(inflight), b \in StreamedOf(inflight) :
      SamePos(a, b) /\ \E o \in {"text", "ui", "throw"} : ToolReply(a, o)

\* The provider gives the model call of the streaming exchange the answer
\* it gave the plain exchange, which is one step ahead or has ended.
StreamedModel ==
    \E b \in StreamedOf(inflight) :
      IF PlainOf(inflight) = {}
      THEN IF last.status = 200
           THEN \E content \in Contents : ModelReply(b, TRUE, content, 0, 0)
           ELSE ModelReply(b, FALSE, "", 0, 0)
      ELSE \E a \in PlainOf(inflight) :
             /\ ~SamePos(a, b)
             /\ ModelReplyCustom(b, a.msg.content, Len(a.msg.calls),
                                 a.msg.custom)

\* The tool call of the streaming exchange ends as that of the plain one.
StreamedTool ==
    \E b \in StreamedOf(inflight) :
      IF PlainOf(inflight) = {}
      THEN ToolReply(b, "throw")
      ELSE \E a \in PlainOf(inflight) :
             /\ ~SamePos(a, b)
             /\ ToolReply(b, IF a.history[Len(a.history)].content
                                    = ToolText("ui")
                              THEN "ui" ELSE "text")

NextPair ==
    \/ minted = <<>> /\ CreateSession(1)
    \/ PairRequests
    \/ PlainModel
    \/ PlainTool
    \/ StreamedModel
    \/ StreamedTool
    \/ StreamAnswers

SpecPair == Init /\ [][NextPair]_vars

(* SpecBooking: booking inquiries of one session, sent by the button of    *)
(* the page or asked for by the model in an exchange                        *)

BookingRequests ==
    \E t \in TokenInputs, a \in BookingArgs, c \in BOOLEAN, m \in BOOLEAN :
        SendBookingAnswered(t, a, c, m)

\* The tool call of an exchange is a send_booking_inquiry.
BookingToolAnswers ==
    \E r \in inflight, a \in BookingArgs, c \in BOOLEAN, m \in BOOLEAN :
        ToolReply(r, ToolOutcome(ExecuteSendBooking(a, c, m)))

NextBooking ==
    \/ minted = <<>> /\ CreateSession(1)
    \/ Clock(MaxTime, Day)
    \/ BookingRequests
    \/ inflight = {} /\ ChatRequests(MaxExchanges, MaxInFlight, {1})
    \/ ModelAnswers
    \/ ModelAsksTools(MaxToolRounds, MaxToolCalls)
    \/ BookingToolAnswers
    \/ StreamAnswers

SpecBooking == Init /\ [][NextBooking]_vars

(* SpecLive: the exchanges of one conversation, one after the other, with  *)
(* a provider that may ask for tools beyond the iteration cap; every model  *)
(* call and every tool call returns or fails                                *)

\* A pending model call, tool call or stream gets its answer.
Answers ==
    \/ ModelAnswers
    \/ ModelAsksTools(LiveRounds, MaxToolCalls)
    \/ ToolsAnswer({"text", "throw"})
    \/ StreamAnswers

NextLive ==
    \/ minted = <<>> /\ CreateSession(1)
    \/ inflight = {} /\ ChatRequests(LiveExchanges, MaxInFlight, {1})
    \/ Answers

SpecLive == Init /\ [][NextLive]_vars /\ WF_vars(Answers)

-----------------------------------------------------------------------------
(* Properties *)

\* A token of a stored session that validateSessionToken accepts and that
\* has messages left
Usable(t) ==
    t \in DOMAIN sessions /\ ValidateResult(t) /\ sessions[t].messagesRemaining > 0

InFlightOn(c) == {r \in inflight : r.conv = c}

\* C1, as stated: whatever request arrives for a conversation id on which
\* an exchange is in flight is answered 429.
C1_Original ==
    \A r \in inflight : \A t \in DOMAIN sessions :
        ChatStatus("ok", t, r.conv) = 429

\* C1, amended: at most one accepted exchange is in flight for a
\* conversation id, across both endpoints; while it is, between the acquire
\* and the release of the guard, every request for that id is rejected (never
\* accepted, never queued): with 429 when it passes the message, session and
\* quota checks, and otherwise with the 400, 401 or 403 of the check it fails.
C1_OneInFlightPerConversation ==
    /\ \A r1, r2 \in inflight : r1.conv = r2.conv => r1 = r2
    /\ \A r \in inflight :
        /\ r.conv \in activeRequests
        /\ \A m \in Messages, t \in TokenInputs :
             /\ ChatStatus(m, t, r.conv) \in {400, 401, 403, 429}
             /\ (m = "ok" /\ Usable(t)) => ChatStatus(m, t, r.conv) = 429

\* C1: a usable token collides with a streaming exchange in flight while a
\* second exchange runs on another conversation.
C1_Witness ==
    \E r, q \in inflight :
        /\ r.kind = "stream" /\ q.kind = "chat" /\ r.conv # q.conv
        /\ \E t \in DOMAIN sessions : ChatStatus("ok", t, r.conv) = 429

\* C2: the guard of a conversation id is held only while an exchange is in
\* flight on it, however the previous exchanges ended, so that no request on
\* a conversation without an exchange in flight is answered 429.
C2_GuardReleased ==
    /\ \A c \in activeRequests : InFlightOn(c) # {}
    /\ \A c \in Convs :
         InFlightOn(c) = {} =>
            \A m \in Messages, t \in TokenInputs : ChatStatus(m, t, c) # 429

\* C2: an exchange has ended in an error, and a request on its conversation
\* is accepted.
C2_Witness ==
    /\ last.status = 500
    /\ last.conv \notin activeRequests
    /\ \E t \in DOMAIN sessions : ChatStatus("ok", t, last.conv) = 0

\* C3, as stated: at most one accepted request is in flight per session
\* token.
C3_Original ==
    \A r1, r2 \in inflight : r1.token = r2.token => r1 = r2

\* C3, amended: the requests in flight with one session token are on
\* pairwise different conversation ids; the guard is per conversation id, and
\* one token can have several requests in flight.
C3_OneInFlightPerTokenAndConversation ==
    \A r1, r2 \in inflight :
        (r1.token = r2.token /\ r1 # r2) => r1.conv # r2.conv

\* C3: two requests with the same token are in flight, one of them without
\* sessionId in its body.
C3_Witness ==
    \E r1, r2 \in inflight : r1 # r2 /\ r1.token = r2.token /\ r1.conv # r2.conv

\* C5: the step that accepts a message decrements messagesRemaining of its
\* session by one and leaves the request at its first model call, no tool
\* iteration made; no other step changes messagesRemaining of a session.
C5_DecrementOncePerMessage ==
    [][IF nAccepted' # nAccepted
       THEN \E r \in inflight' :
              /\ r.serial = nAccepted' /\ nAccepted' = nAccepted + 1
              /\ r.pc = "model" /\ r.modelCalls = 1 /\ r.iterations = 0
              /\ r.token \in DOMAIN sessions
              /\ sessions' = [sessions EXCEPT
                                ![r.token].messagesRemaining = @ - 1]
       ELSE \A t \in DOMAIN sessions \cap DOMAIN sessions' :
              sessions'[t].messagesRemaining = sessions[t].messagesRemaining
      ]_vars

\* C5: an exchange is at its second model call, after a tool iteration, and
\* its session has lost one message.
C5_Witness ==
    \E r \in inflight :
        /\ r.iterations = 1 /\ r.modelCalls = 2
        /\ r.token \in DOMAIN sessions
        /\ sessions[r.token].messagesRemaining = MAX_MESSAGES_PER_TOKEN - 1

\* The step in which a model call of request r fails
ModelCallFails(r) ==
    \/ ModelReply(r, FALSE, "", 0, 0)
    \/ StreamOpen(r, FALSE)
    \/ StreamNext(r, "error")

\* C6: when a model call of an exchange fails, the exchange ends with the
\* error reply in that step: it is no longer in flight (no retry, no further
\* model call or tool call), and no session is credited.
C6_ModelFailureAborts ==
    /\ [][\A r \in inflight :
            ModelCallFails(r) =>
              /\ last' = ErrorReply(r)
              /\ \A q \in inflight' : q.serial # r.serial
              /\ sessions' = sessions
         ]_vars
    /\ [](\A q \in inflight : q.serial # last.serial)

\* C6: an exchange that made a tool iteration was answered 500, and its
\* session has one message less.
C6_Witness ==
    /\ last.op = "chat" /\ last.status = 500
    /\ last.conv \in DOMAIN chatHistories
    /\ Len(chatHistories[last.conv]) = 3
    /\ last.token \in DOMAIN sessions
    /\ sessions[last.token].messagesRemaining = MAX_MESSAGES_PER_TOKEN - 1

\* C4: messagesRemaining of every session is within 0..25 and no step
\* increases it, whichever of session creation, validation, chat, streaming
\* chat, booking, clear and sweep the step is.
C4_QuotaMonotone ==
    /\ [](\A t \in DOMAIN sessions :
            sessions[t].messagesRemaining \in 0..MAX_MESSAGES_PER_TOKEN)
    /\ [][\A t \in DOMAIN sessions \cap DOMAIN sessions' :
            sessions'[t].messagesRemaining <= sessions[t].messagesRemaining
         ]_vars

\* C4: a session has come down to its last message while an exchange of it
\* is in flight.
C4_Witness ==
    \E r \in inflight :
        /\ r.token \in DOMAIN sessions
        /\ sessions[r.token].messagesRemaining = 0

\* C7: a chat request with the token of a valid session that has no message
\* left is answered 403, starts no exchange (no model call) and leaves the
\* session as it is; a valid session with messages left accepts a well-formed
\* message, and the messages accepted and the messages left add up to 25:
\* a fresh session accepts 25 messages and rejects the 26th.
C7_QuotaExhausted ==
    /\ [](\A t \in DOMAIN sessions :
            /\ nAccepted + sessions[t].messagesRemaining = MAX_MESSAGES_PER_TOKEN
            /\ ValidateResult(t) =>
                 \A sid \in {NoConv} \cup Convs :
                   IF sessions[t].messagesRemaining = 0
                   THEN ChatStatus("ok", t, sid) = 403
                   ELSE ChatStatus("ok", t, sid) \in {0, 429})
    /\ [](nAccepted <= MAX_MESSAGES_PER_TOKEN)
    /\ [][\A t \in DOMAIN sessions :
            (ValidateResult(t) /\ sessions[t].messagesRemaining = 0) =>
              \A k \in Kinds, sid \in {NoConv} \cup Convs :
                ChatRequest(k, "ok", t, sid) =>
                  /\ inflight' = inflight
                  /\ sessions' = sessions
                  /\ nAccepted' = nAccepted
         ]_vars

\* C7: the session is valid, 25 messages were accepted and none is left.
C7_Witness ==
    /\ nAccepted = MAX_MESSAGES_PER_TOKEN
    /\ \E t \in DOMAIN sessions :
         /\ ValidateResult(t)
         /\ sessions[t].messagesRemaining = 0
         /\ ChatStatus("ok", t, NoConv) = 403

\* The time at which the session of a minted token expires
ExpiresAt(t) == minted[t].at + TOKEN_EXPIRY_HOURS

\* C8: validateSessionToken returns the session exactly for the stored
\* tokens whose expiresAt (24 hours after creation) has not passed, null for
\* absent tokens and for expired ones, swept or not; validating an expired
\* token removes its session, and validating any other token changes nothing.
C8_Validate ==
    /\ [](\A t \in 1..(Len(minted) + 1) :
            ValidateResult(t) <=>
              (t \in DOMAIN sessions /\ ~(ExpiresAt(t) < now)))
    /\ [][\A t \in 1..(Len(minted) + 1) :
            ValidateSession(t) =>
              sessions' = IF t \in DOMAIN sessions /\ ExpiresAt(t) < now
                          THEN Remove(sessions, t) ELSE sessions
         ]_vars

\* C8: an expired session is still stored (no sweep has removed it) next to
\* a session that has not expired.
C8_Witness ==
    \E t, u \in DOMAIN sessions :
        /\ ExpiresAt(t) < now /\ ~ValidateResult(t)
        /\ ExpiresAt(u) = now /\ ValidateResult(u)

\* The throttle record of ip shows the daily cap, with resetAt in the future.
AtDailyCap(ip) ==
    /\ ip \in DOMAIN tokenCreationByIp
    /\ tokenCreationByIp[ip].count >= MAX_TOKENS_PER_IP_PER_DAY
    /\ tokenCreationByIp[ip].resetAt > now

\* C9: createSession from an origin at its daily cap is answered 429, mints
\* no session and leaves the throttle records unchanged; every other
\* createSession is answered 200 and mints one session for the origin.
C9_CreateSession ==
    [][\A ip \in 1..LedgerIps :
         CreateSession(ip) =>
           IF AtDailyCap(ip)
           THEN /\ CreateStatus(ip) = 429
                /\ sessions' = sessions
                /\ minted' = minted
                /\ tokenCreationByIp' = tokenCreationByIp
           ELSE /\ CreateStatus(ip) = 200
                /\ Len(minted') = Len(minted) + 1
                /\ DOMAIN sessions' = DOMAIN sessions \cup {Len(minted')}
                /\ sessions'[Len(minted')].ip = ip
      ]_vars

\* C9: an origin is at its daily cap while another origin is not.
C9_Witness ==
    \E ip, other \in 1..LedgerIps :
        /\ AtDailyCap(ip) /\ CreateStatus(ip) = 429
        /\ ~AtDailyCap(other) /\ CreateStatus(other) = 200
        /\ Len(minted) < LedgerTokens

\* The sessions created from the origin of token i in the 24 hours that
\* start with the creation of token i
CreatedInDayFrom(i) ==
    {j \in 1..Len(minted) :
        /\ minted[j].ip = minted[i].ip
        /\ minted[i].at <= minted[j].at
        /\ minted[j].at < minted[i].at + IP_WINDOW_HOURS}

\* C10, as stated: no 24-hour window holds more than 3 session creations
\* of one origin.
C10_Original ==
    \A i \in 1..Len(minted) :
        Cardinality(CreatedInDayFrom(i)) <= MAX_TOKENS_PER_IP_PER_DAY

\* Token i started a throttle window of its origin: no earlier window of
\* the origin was still open when it was created.
RECURSIVE OpensWindow(_)
OpensWindow(i) ==
    \A k \in 1..(i - 1) :
        (minted[k].ip = minted[i].ip /\ OpensWindow(k)) =>
            minted[k].at + IP_WINDOW_HOURS <= minted[i].at

\* C10, amended: the cap holds per throttle window, the 24 hours that start
\* with the first creation from the origin after its previous window has
\* ended: no throttle window holds more than 3 creations of its origin.  (A
\* 24-hour window that overlaps two throttle windows can hold more.)
C10_CapPerThrottleWindow ==
    \A i \in 1..Len(minted) :
        OpensWindow(i) =>
            Cardinality(CreatedInDayFrom(i)) <= MAX_TOKENS_PER_IP_PER_DAY

\* C10: an origin has filled a throttle window and started the next one.
C10_Witness ==
    \E i, j \in 1..Len(minted) :
        /\ i < j /\ minted[i].ip = minted[j].ip
        /\ OpensWindow(i) /\ OpensWindow(j)
        /\ Cardinality(CreatedInDayFrom(i)) = MAX_TOKENS_PER_IP_PER_DAY

\* C11, as stated: an origin whose throttle record shows the cap is refused
\* as long as now <= resetAt, the instant now = resetAt included; it is
\* admitted again only at instants strictly later than resetAt.
C11_Original ==
    \A ip \in DOMAIN tokenCreationByIp :
        (/\ tokenCreationByIp[ip].count >= MAX_TOKENS_PER_IP_PER_DAY
         /\ now <= tokenCreationByIp[ip].resetAt)
            => CreateStatus(ip) = 429

AllAskedTools(r) ==
    \/ r.pc = "model" /\ r.iterations = r.modelCalls - 1
    \/ r.pc = "tool" /\ r.iterations = r.modelCalls
    \/ r.pc \in {"stream", "chunks"} /\ r.iterations = maxIterations

\* C13, as stated: an exchange whose every response asks for tools makes
\* exactly maxIterations model calls: it never makes call number
\* maxIterations + 1.
C13_Original ==
    \A r \in inflight : AllAskedTools(r) => r.modelCalls <= maxIterations

\* C13, amended: an exchange makes at most maxIterations tool iterations.
\* When every response asks for tools, the response to model call number
\* maxIterations + 1 ends the loop: on /ai/chat the exchange ends there with
\* its reply, after exactly maxIterations + 1 model calls; on
\* /ai/chat/stream the streaming call follows as call number
\* maxIterations + 2, and no further one.
C13_IterationBound ==
    /\ [](\A r \in inflight :
            /\ r.iterations <= maxIterations
            /\ r.modelCalls = r.iterations
                  + (IF r.pc = "tool" THEN 0 ELSE 1)
                  + (IF r.pc \in {"stream", "chunks"} THEN 1 ELSE 0))
    /\ [][\A r \in inflight, n \in 1..LoopToolCalls :
            (r.iterations = maxIterations /\ ModelReply(r, TRUE, "", n, 0)) =>
              /\ r.modelCalls = maxIterations + 1
              /\ IF r.kind = "chat"
                 THEN /\ \A q \in inflight' : q.serial # r.serial
                      /\ last' = Resp("chat", 200, r.token, r.conv, r.serial)
                 ELSE \E q \in inflight' :
                        /\ q.serial = r.serial /\ q.pc = "stream"
                        /\ q.modelCalls = maxIterations + 2
                        /\ q.iterations = maxIterations
         ]_vars

\* C13: a streaming exchange whose every response asked for tools is at its
\* streaming call, the call number maxIterations + 2.
C13_Witness ==
    \E r \in inflight :
        /\ r.kind = "stream" /\ r.pc = "chunks"
        /\ r.iterations = maxIterations
        /\ Len(r.msg.calls) > 0
        /\ r.modelCalls = maxIterations + 2

\* The number of the model call whose response issued tool call id
CallRound(id) == (id \div 10) % 10

\* No turn of transcript h stems from the tool calls of a response that met
\* the iteration cap.
NoCapCalls(h) ==
    \A i \in 1..Len(h) :
        /\ h[i].role = "tool" => CallRound(h[i].id) <= maxIterations
        /\ \A j \in 1..Len(h[i].calls) :
              CallRound(h[i].calls[j]) <= maxIterations

\* C14: when a response with tool calls arrives at the iteration cap,
\* /ai/chat ends the exchange in that step as for plain content: the
\* transcript stored is the trimmed transcript with a final assistant turn
\* that carries the content of the response (possibly empty) and no tool
\* calls; on both endpoints no tool call of that response is dispatched, and
\* no transcript ever holds one of them or a tool turn for one.
C14_CapEndsAsPlainContent ==
    /\ [][\A r \in inflight, content \in Contents, n \in 1..LoopToolCalls :
            (r.iterations = maxIterations
               /\ ModelReply(r, TRUE, content, n, 0)) =>
              IF r.kind = "chat"
              THEN /\ \A q \in inflight' : q.serial # r.serial
                   /\ last' = Resp("chat", 200, r.token, r.conv, r.serial)
                   /\ chatHistories'[r.conv] =
                        TrimHistory(Append(r.history,
                                           AssistantTurn(content, <<>>)))
              ELSE \E q \in inflight' :
                     /\ q.serial = r.serial /\ q.pc = "stream"
                     /\ q.history = r.history
         ]_vars
    /\ [](/\ \A c \in DOMAIN chatHistories : NoCapCalls(chatHistories[c])
          /\ \A r \in inflight :
                /\ NoCapCalls(r.history)
                /\ r.pc = "tool" => r.modelCalls <= maxIterations)

\* C14: after a plain exchange that went through maxIterations tool
\* iterations and was answered with content, a streaming exchange has met the
\* cap with a response that carries content and tool calls, none dispatched.
C14_Witness ==
    /\ last.op = "chat" /\ last.status = 200
    /\ \E c \in DOMAIN chatHistories :
         \E i \in 1..Len(chatHistories[c]) - 1 :
            /\ chatHistories[c][i].role = "tool"
            /\ CallRound(chatHistories[c][i].id) = maxIterations
            /\ chatHistories[c][i + 1] = AssistantTurn("text", <<>>)
    /\ \E r \in inflight :
         /\ r.kind = "stream" /\ r.pc = "stream"
         /\ r.iterations = maxIterations
         /\ r.msg.content = "text" /\ Len(r.msg.calls) = LoopToolCalls

\* The call ids of turn m
CallIdsOf(m) == {m.calls[j] : j \in 1..Len(m.calls)}

\* Invariant A of transcript h: every tool turn answers a call of an earlier
\* assistant turn of h, and only tool turns answering that assistant turn
\* stand between the two.
InvariantA(h) ==
    \A i \in 1..Len(h) :
        h[i].role = "tool" =>
            \E j \in 1..(i - 1) :
                /\ h[j].role = "assistant"
                /\ \A k \in (j + 1)..i :
                      h[k].role = "tool" /\ h[k].id \in CallIdsOf(h[j])

\* C15: the stored transcript of every conversation satisfies Invariant A
\* in every state, after successful and failed exchanges and after trims;
\* so does the transcript a handler works on.
C15_InvariantA ==
    /\ \A c \in DOMAIN chatHistories : InvariantA(chatHistories[c])
    /\ \A r \in inflight : InvariantA(r.history)

\* C15: a stored transcript was cut inside the tool turns of an assistant
\* turn with two calls: the trim removed both tool turns, and the transcript
\* starts with the assistant turn of the next iteration and its tool turns.
C15_Witness ==
    \E c \in DOMAIN chatHistories :
        LET h == chatHistories[c] IN
        /\ Len(h) = MAX_HISTORY_LENGTH - 2
        /\ h[1].role = "assistant" /\ Len(h[1].calls) = 2
        /\ h[2].role = "tool" /\ h[3].role = "tool"
        /\ CallRound(h[2].id) > 1

\* Invariant B of transcript h: every tool call of every assistant turn of
\* h is answered by a later tool turn of h.
InvariantB(h) ==
    \A i \in 1..Len(h) :
        h[i].role = "assistant" =>
            \A id \in CallIdsOf(h[i]) :
                \E k \in (i + 1)..Len(h) :
                    h[k].role = "tool" /\ h[k].id = id

\* C16, as stated: whenever no exchange is in flight for a conversation, its
\* stored transcript satisfies Invariant B, also after exchanges that ended
\* in an error.
C16_Original ==
    \A c \in DOMAIN chatHistories :
        InFlightOn(c) = {} => InvariantB(chatHistories[c])

\* C17, as stated: no failure of a tool dispatch aborts the exchange.  The
\* step in which executeToolCall ends, with a result or with an exception
\* of the handler, appends the tool turn of the call and leaves the exchange
\* in flight, whatever the arguments of the next call are.
C17_Original ==
    [][\A r \in inflight :
         (\E o \in {"text", "ui", "throw"} : ToolReply(r, o)) =>
             \E q \in inflight' :
                 /\ q.serial = r.serial
                 /\ Len(q.history) = Len(r.history) + 1
                 /\ q.history[Len(q.history)].role = "tool"
                 /\ q.history[Len(q.history)].id = r.msg.calls[r.idx]
      ]_vars

\* The transcripts the program trims or could trim: the stored ones, and
\* those of the handlers with their final assistant turn
Transcripts ==
    {chatHistories[c] : c \in DOMAIN chatHistories}
    \cup {Append(r.history, AssistantTurn(content, <<>>)) :
             r \in inflight, content \in Contents}

\* C18: trimming a transcript that is the result of a trim, with the bound
\* 20 or a larger one, returns it unchanged.
C18_TrimIdempotent ==
    \A h \in Transcripts :
        \A n \in MAX_HISTORY_LENGTH..(MAX_HISTORY_LENGTH + TrimSlack) :
            TrimTo(TrimHistory(h), n) = TrimHistory(h)

\* C18: a handler is about to trim a transcript of more than 22 turns, and
\* the trim repairs the head of the last 20.
C18_Witness ==
    \E r \in inflight :
        LET h == Append(r.history, AssistantTurn("text", <<>>)) IN
        /\ Len(h) > MAX_HISTORY_LENGTH + TrimSlack
        /\ Len(TrimHistory(h)) < MAX_HISTORY_LENGTH
        /\ TrimHistory(h) # h

\* The transcript request r works on holds the turns of earlier exchanges
\* but is no longer the stored array: DELETE /ai/chat/:sessionId has cleared
\* the conversation since r was accepted.
ClearedUnderExchange(r) ==
    /\ ~r.aliased
    /\ Cardinality({i \in 1..Len(r.history) : r.history[i].role = "user"}) > 1

\* C19, as stated: after a clear, no turn appended before it is stored
\* again for the conversation, also when an exchange is in flight on it.
\* All user turns of the transcript of the exchange in flight were appended
\* before the clear, so no transcript stored for the conversation while that
\* exchange runs or ends holds a user turn.
C19_Original ==
    [][\A r \in inflight :
         (ClearedUnderExchange(r) /\ r.conv \in DOMAIN chatHistories') =>
             \A i \in 1..Len(chatHistories'[r.conv]) :
                 chatHistories'[r.conv][i].role # "user"
      ]_vars

\* The statuses of the rejections of C20, for a request with a message that
\* is not empty, on either endpoint (the checks of the two are the same):
\* 401 without a valid session, 403 on a valid session with no message left,
\* 429 for a well-formed message on a usable session and a busy conversation.
RejectionCodes ==
    \A t \in TokenInputs, sid \in {NoConv} \cup Convs :
        /\ (t = NoToken \/ ~ValidateResult(t)) =>
              \A m \in {"ok", "long"} : ChatStatus(m, t, sid) = 401
        /\ (t # NoToken /\ ValidateResult(t)
              /\ sessions[t].messagesRemaining <= 0) =>
              \A m \in {"ok", "long"} : ChatStatus(m, t, sid) = 403
        /\ (Usable(t) /\ sid # NoConv /\ InFlightOn(sid) # {}) =>
              ChatStatus("ok", t, sid) = 429

FullContent(r) == IF r.chunks > 0 THEN "text" ELSE ""

\* Request r is no longer in flight after the step.
Ended(r) == \A q \in inflight' : q.serial # r.serial

\* C21: a streaming exchange writes chunk events only while it reads the
\* stream of its streaming call, and its response ends with exactly one
\* closing event, written in the step that ends the exchange: the
\* completion marker if and only if that step appended the final assistant
\* turn (the text of the chunks) and stored the trimmed transcript, the
\* error event otherwise.  No closing event is written before.
C21_StreamEvents ==
    [][\A r \in inflight :
         r.kind = "stream" =>
           /\ \A q \in inflight' :
                 (q.serial = r.serial /\ q.chunks # r.chunks) =>
                    /\ r.pc = "chunks" /\ q.pc = "chunks"
                    /\ q.chunks = r.chunks + 1
           /\ IF Ended(r)
              THEN /\ last'.serial = r.serial /\ last'.op = "stream"
                   /\ last'.event \in {"done", "error"}
                   /\ last'.event = "done" <=>
                        /\ r.pc = "chunks"
                        /\ r.conv \in DOMAIN chatHistories'
                        /\ chatHistories'[r.conv] =
                             TrimHistory(Append(r.history,
                                 AssistantTurn(FullContent(r), <<>>)))
              ELSE last' = last
      ]_vars

\* C21: a streaming exchange that went through a tool iteration and wrote a
\* chunk event has ended with the completion marker, and the transcript
\* stored ends with the text of the chunk.
C21_Witness ==
    /\ last.op = "stream" /\ last.event = "done"
    /\ last.conv \in DOMAIN chatHistories
    /\ LET h == chatHistories[last.conv] IN
         /\ Len(h) > 2
         /\ h[Len(h)] = AssistantTurn("text", <<>>)
         /\ h[Len(h) - 1].role = "tool"

\* The exchange that issued tool call id
CallSerial(id) == id \div 100

\* The uiResources of the tool results of exchange number serial in
\* transcript h, in the order of the tool turns: a tool turn with the text of
\* a UI tool stands for a result with a uiResource.
Produced(h, serial) ==
    LET Shown(m) == /\ m.role = "tool" /\ m.content = ToolText("ui")
                    /\ CallSerial(m.id) = serial
        shown == SelectSeq(h, Shown)
    IN [i \in 1..Len(shown) |-> shown[i].id]

\* C22: the body of a 200 response of POST /ai/chat has the uiResources of
\* the tool results of its exchange, each once, unchanged and in the order
\* of the dispatches over all iterations; the results without a uiResource
\* add nothing, and the body has no uiResources field when no result of the
\* exchange had one.
C22_Attachments ==
    [][\A r \in inflight :
         (/\ r.kind = "chat" /\ Ended(r)
          /\ last'.serial = r.serial /\ last'.status = 200) =>
            last'.uiResources =
                IF Produced(r.history, r.serial) = <<>> THEN {}
                ELSE {Produced(r.history, r.serial)}
      ]_vars

\* C22: the second exchange of a conversation was answered with the three
\* uiResources of two iterations, in the order of the calls; one tool result
\* of the exchange had no uiResource, and the first exchange had one that is
\* not in the response.
C22_Witness ==
    /\ last.op = "chat" /\ last.status = 200 /\ last.serial = 2
    /\ \E u \in last.uiResources :
         /\ Len(u) = 3
         /\ CallRound(u[1]) = 1 /\ CallRound(u[3]) = 2
         /\ u[1] < u[2] /\ u[2] < u[3]
    /\ last.conv \in DOMAIN chatHistories
    /\ \E i, j \in 1..Len(chatHistories[last.conv]) :
         LET h == chatHistories[last.conv] IN
         /\ h[i].role = "tool" /\ h[i].content = ToolText("text")
         /\ CallSerial(h[i].id) = 2
         /\ h[j].role = "tool" /\ h[j].content = ToolText("ui")
         /\ CallSerial(h[j].id) = 1

\* C23, as stated: whenever no exchange is in flight for a conversation, its
\* stored transcript holds at most MAX_HISTORY_LENGTH turns, after exchanges
\* that succeeded and after exchanges that failed.
C23_Original ==
    \A c \in DOMAIN chatHistories :
        InFlightOn(c) = {} => Len(chatHistories[c]) <= MAX_HISTORY_LENGTH

\* The tool calls of the assistant turn at position i of transcript h are
\* answered in place: the turns that follow it are tool turns with the ids
\* of its calls, one for each call and in the order of the calls.
AnsweredInPlace(h, i) ==
    /\ i + Len(h[i].calls) <= Len(h)
    /\ \A k \in 1..Len(h[i].calls) :
          h[i + k].role = "tool" /\ h[i + k].id = h[i].calls[k]

\* C24, as stated: when an exchange is at a model call, every assistant
\* turn with tool calls that the exchange has appended is followed by the
\* tool turns of its calls, one for each call and in the order of the calls.
C24_Original ==
    \A r \in inflight :
        r.pc \in {"model", "stream", "chunks"} =>
            \A i \in 1..Len(r.history) :
                (/\ r.history[i].role = "assistant"
                 /\ \E id \in CallIdsOf(r.history[i]) :
                        CallSerial(id) = r.serial)
                    => AnsweredInPlace(r.history, i)

\* Transcript h satisfies Invariant A, and each of its assistant turns with
\* tool calls is directly followed by its tool turns.
WellFormed(h) ==
    /\ InvariantA(h)
    /\ \A i \in 1..Len(h) :
          (h[i].role = "assistant" /\ Len(h[i].calls) > 0) =>
              AnsweredInPlace(h, i)

\* C25: the trim of a well-formed transcript of more than 20 turns returns
\* the last 20 turns without their leading tool turns, all of these and
\* nothing else: a window that begins with a turn that is not a tool turn
\* (an assistant turn followed by its tool turns, for one) is returned whole,
\* and a window that begins inside the tool turns of an assistant turn is
\* returned from the first turn after them.
C25_TrimExact ==
    \A h \in Transcripts :
        (Len(h) > MAX_HISTORY_LENGTH /\ WellFormed(h)) =>
            LET w == SubSeq(h, Len(h) - MAX_HISTORY_LENGTH + 1, Len(h)) IN
            \E k \in 0..MAX_HISTORY_LENGTH :
                /\ \A j \in 1..k : w[j].role = "tool"
                /\ k < MAX_HISTORY_LENGTH => w[k + 1].role # "tool"
                /\ TrimHistory(h) = SubSeq(w, k + 1, MAX_HISTORY_LENGTH)

\* C25: an exchange at a model call has a well-formed transcript whose last
\* 20 turns, with the final assistant turn, begin at the second tool turn of
\* an assistant turn with two calls, followed by an assistant turn with its
\* tool turns: the trim returns 19 turns.
C25_Witness ==
    \E r \in inflight :
        LET h == Append(r.history, AssistantTurn("text", <<>>))
            w == SliceLast(h, MAX_HISTORY_LENGTH)
        IN
        /\ r.pc = "model"
        /\ Len(h) > MAX_HISTORY_LENGTH /\ WellFormed(h)
        /\ w[1].role = "tool" /\ h[Len(h) - MAX_HISTORY_LENGTH].role = "tool"
        /\ w[2].role = "assistant" /\ Len(w[2].calls) > 0
        /\ Len(TrimHistory(h)) = MAX_HISTORY_LENGTH - 1

\* The head of transcript h is sound: its first turn is not a tool turn, and
\* not an assistant turn with tool calls whose next turn is not a tool turn
\* for one of these calls.
SoundHead(h) ==
    Len(h) > 0 =>
        /\ h[1].role # "tool"
        /\ (h[1].role = "assistant" /\ Len(h[1].calls) > 0) =>
              /\ Len(h) > 1
              /\ h[2].role = "tool" /\ h[2].id \in CallIdsOf(h[1])

\* C26, as stated: when an exchange ends with a transcript of more than 20
\* turns, whatever its shape, the trimmed transcript it stores has a sound
\* head.
C26_Original ==
    [][\A r \in inflight :
         (/\ Ended(r) /\ last'.serial = r.serial
          /\ last'.status = 200 /\ last'.event # "error"
          /\ Len(r.history) + 1 > MAX_HISTORY_LENGTH) =>
            SoundHead(chatHistories'[r.conv])
      ]_vars

\* The step ends request r with its answer (the 200 response of /ai/chat,
\* the completion marker of /ai/chat/stream).
Succeeds(r) ==
    /\ Ended(r) /\ last'.serial = r.serial
    /\ last'.status = 200 /\ last'.event # "error"

\* C27, as stated: on both endpoints a successful exchange has made one
\* model call for each response whose tool calls it dispatched and one
\* more, the last: the streaming exchange as many as the plain one.
C27_Original ==
    [][\A r \in inflight : Succeeds(r) => r.modelCalls = r.iterations + 1
      ]_vars

\* C27, amended: the model calls of the tool loop are not streamed on either
\* endpoint, and the streaming call is the last model call of a streaming
\* exchange; it is made after the loop has ended, in addition to the call
\* whose response ended the loop.  For the same number of responses with
\* dispatched tool calls a successful streaming exchange makes one model
\* call more than a plain one: that number plus 2 against that number plus 1.
C27_StreamOneMoreCall ==
    /\ [](\A r \in inflight :
            /\ r.pc \in {"stream", "chunks"} => r.kind = "stream"
            /\ r.pc \in {"model", "tool"} => r.modelCalls <= r.iterations + 1)
    /\ [][\A r \in inflight :
            /\ r.pc \in {"stream", "chunks"} =>
                  \A q \in inflight' :
                      q.serial = r.serial =>
                          /\ q.pc \in {"stream", "chunks"}
                          /\ q.modelCalls = r.modelCalls
            /\ Succeeds(r) =>
                  IF r.kind = "stream"
                  THEN r.pc = "chunks" /\ r.modelCalls = r.iterations + 2
                  ELSE r.pc = "model" /\ r.modelCalls = r.iterations + 1
         ]_vars

\* C27: after a plain exchange with two tool iterations (three model
\* calls), a streaming exchange with two tool iterations reads the stream of
\* its fourth model call.
C27_Witness ==
    /\ last.op = "chat" /\ last.status = 200 /\ last.serial = 1
    /\ \E r \in inflight :
         /\ r.kind = "stream" /\ r.pc = "chunks" /\ r.serial = 2
         /\ r.iterations = 2 /\ r.modelCalls = 4
         /\ \E i \in 1..Len(r.history) :
               /\ r.history[i].role = "tool"
               /\ CallSerial(r.history[i].id) = 1
               /\ CallRound(r.history[i].id) = 2
         /\ \A i \in 1..Len(r.history) :
               (r.history[i].role = "tool" /\ CallSerial(r.history[i].id) = 1)
                   => CallRound(r.history[i].id) <= 2

\* The messages taken from the quota of the sessions so far
Decrements ==
    LET RECURSIVE Sum(_)
        Sum(T) == IF T = {} THEN 0
                  ELSE LET t == CHOOSE x \in T : TRUE IN
                       (MAX_MESSAGES_PER_TOKEN - sessions[t].messagesRemaining)
                           + Sum(T \ {t})
    IN Sum(DOMAIN sessions)

\* Handler r has passed the guard check and set the guard.
Admitted(r) == r.serial <= nAccepted

\* The user turns appended so far: one for each admitted request, but for
\* the handler whose transcript is still to be read
UserTurnsAppended ==
    nAccepted - Cardinality({r \in inflight :
                                Admitted(r) /\ Len(r.history) = 0})

\* C28, as stated, in its two particulars: every handler that has passed
\* the quota check has acquired the guard before and holds it until it
\* releases it; and a user turn is appended only after the decrement for
\* its message, so that the decrements are never behind the user turns.
C28_Original ==
    /\ \A r \in inflight : r.pc # "released" => r.conv \in activeRequests
    /\ Decrements >= UserTurnsAppended

\* C28, amended: the steps of an accepted message on POST /ai/chat are, in
\* this order: checks of the session and the quota; guard check and
\* acquire; append of the user turn; decrement; the model and tool loop;
\* append of the final assistant turn; trim and store; guard release;
\* response.  What each position of a handler shows of these effects:
C28_StepOrder ==
    /\ [](/\ Cardinality({r \in inflight : r.pc \in SyncPcs}) <= 1
          /\ Cardinality(activeRequests) =
                Cardinality({r \in inflight :
                                Admitted(r) /\ r.pc # "released"})
          /\ UserTurnsAppended - Decrements =
                Cardinality({r \in inflight : r.pc = "appended"})
          /\ \A r \in inflight :
                /\ r.pc = "checked" =>
                      /\ ~Admitted(r) /\ Usable(r.token)
                      /\ Len(r.history) = 0
                /\ r.pc = "acquired" =>
                      /\ r.conv \in activeRequests /\ Len(r.history) = 0
                /\ r.pc = "appended" =>
                      /\ r.conv \in activeRequests
                      /\ r.history[Len(r.history)] = UserTurn
                /\ r.pc \in {"model", "tool"} =>
                      /\ r.conv \in activeRequests /\ Len(r.history) > 0
                /\ r.pc = "final" =>
                      /\ r.conv \in activeRequests
                      /\ r.history[Len(r.history)] =
                            AssistantTurn(r.msg.content, <<>>)
                /\ r.pc = "saved" =>
                      /\ r.conv \in activeRequests
                      /\ chatHistories[r.conv] = TrimHistory(r.history)
                /\ r.pc = "released" =>
                      /\ r.conv \notin activeRequests
                      /\ chatHistories[r.conv] = TrimHistory(r.history)
                      /\ last.serial # r.serial)
    /\ [][\A r \in inflight :
            /\ Succeeds(r) => r.pc = "released"
            /\ (r.pc \in {"model", "tool"} /\ ~Ended(r)) =>
                  \E q \in inflight' :
                      q.serial = r.serial /\ q.pc \in {"model", "tool", "final"}
         ]_vars

\* C28: a handler has appended its user turn to the stored transcript of
\* its conversation and has not yet decremented, while the exchange of
\* another conversation with the same token is at its model call: two
\* messages are taken from the quota, three user turns are appended.
C28_Witness ==
    \E r, q \in inflight :
        /\ r.pc = "appended" /\ q.pc = "model" /\ r.token = q.token
        /\ r.aliased /\ Len(r.history) > 1
        /\ chatHistories[r.conv] = r.history
        /\ sessions[r.token].messagesRemaining = MAX_MESSAGES_PER_TOKEN - 2
        /\ UserTurnsAppended = 3

\* The messages that have reached their first model call
ReachedModel ==
    nAccepted - Cardinality({r \in inflight :
                                r.pc \in {"acquired", "appended"}})

\* C29: between its quota check and its decrement a handler is alone at
\* work and its session keeps the messages it saw, whatever other requests
\* with the same token are in flight; its decrement takes one message and
\* the handler goes on to its model call.  Every message that reaches a
\* model call has taken one message from the quota, and no more than 25 do.
C29_CheckAndDecrementAtomic ==
    /\ [](/\ \A r \in inflight :
                r.pc \in {"checked", "acquired", "appended"} =>
                    /\ Usable(r.token)
                    /\ \A q \in inflight :
                          q.pc \in SyncPcs => q.serial = r.serial
          /\ ReachedModel = Decrements
          /\ ReachedModel <= MAX_MESSAGES_PER_TOKEN
          /\ \A t \in DOMAIN sessions : sessions[t].messagesRemaining >= 0)
    /\ [][\A r \in inflight :
            (r.pc = "appended" /\ inflight' # inflight) =>
               /\ \E q \in inflight' : q.serial = r.serial /\ q.pc = "model"
               /\ sessions' = [sessions EXCEPT
                                 ![r.token].messagesRemaining = @ - 1]
         ]_vars

\* C29: the last two messages of a session are at their model calls
\* together, and the session rejects a further message.
C29_Witness ==
    /\ nAccepted = MAX_MESSAGES_PER_TOKEN
    /\ \E r, q \in inflight :
         /\ r # q /\ r.token = q.token
         /\ r.pc = "model" /\ q.pc = "model"
         /\ sessions[r.token].messagesRemaining = 0
         /\ ChatStatus("ok", r.token, NoConv) = 403

\* A request with this message, token and sessionId meets one of the causes
\* of rejection: the message is empty or oversized, the token is missing or
\* not that of a stored session that has not expired, the quota of the
\* session is exhausted, or an exchange is in flight on the conversation.
Rejectable(message, token, sid) ==
    \/ message \in {"empty", "long"}
    \/ token = NoToken \/ token \notin DOMAIN sessions
    \/ sessions[token].expiresAt < now
    \/ sessions[token].messagesRemaining <= 0
    \/ sid # NoConv /\ InFlightOn(sid) # {}

\* C30: a request to either chat endpoint that meets a cause of rejection
\* starts no handler (no model call), and leaves the stored transcripts,
\* the guard entries and every session that has not expired as they are.
C30_RejectionFrame ==
    [][\A k \in Kinds, m \in Messages, t \in TokenInputs,
         sid \in {NoConv} \cup Convs :
           (Rejectable(m, t, sid) /\ ChatRequest(k, m, t, sid)) =>
              /\ inflight' = inflight /\ nAccepted' = nAccepted
              /\ chatHistories' = chatHistories
              /\ activeRequests' = activeRequests
              /\ \A u \in DOMAIN sessions :
                    ~(sessions[u].expiresAt < now) =>
                       /\ u \in DOMAIN sessions'
                       /\ sessions'[u] = sessions[u]
      ]_vars

\* C30: a session with no message left has an exchange in flight: a
\* message on the conversation of the exchange is rejected for the quota,
\* an oversized one too, and one without token for the token.
C30_Witness ==
    \E r \in inflight :
        /\ ValidateResult(r.token)
        /\ sessions[r.token].messagesRemaining = 0
        /\ Rejectable("ok", r.token, r.conv)
        /\ ChatStatus("ok", r.token, r.conv) = 403
        /\ ChatStatus("long", r.token, NoConv) = 403
        /\ ChatStatus("ok", NoToken, r.conv) = 401

\* The step ends request r with a reported error (the 500 response of
\* /ai/chat, the error event of /ai/chat/stream).
Fails(r) ==
    /\ Ended(r) /\ last'.serial = r.serial
    /\ last'.status = 500 \/ last'.event = "error"

\* The position of the user turn of the exchange in the transcript of its
\* handler: the last user turn
UserTurnIndex(h) ==
    CHOOSE i \in 1..Len(h) :
        h[i].role = "user" /\ \A j \in (i + 1)..Len(h) : h[j].role # "user"

\* The transcript of the conversation of request r as it stood when r was
\* accepted: what comes before the user turn of r
BeforeAccepted(r) == SubSeq(r.history, 1, UserTurnIndex(r.history) - 1)

\* C31, as stated: the step that ends an exchange with a reported error
\* leaves the conversation with the stored transcript it had when the
\* request was accepted, and without one if it had none.
C31_Original ==
    [][\A r \in inflight :
         Fails(r) =>
            IF r.aliased
            THEN /\ r.conv \in DOMAIN chatHistories'
                 /\ chatHistories'[r.conv] = BeforeAccepted(r)
            ELSE r.conv \notin DOMAIN chatHistories'
      ]_vars

\* The streaming exchange b of a pair ends in this step; the plain
\* exchange of the pair has ended before.
EndsPair(b) == b.kind = "stream" /\ Ended(b)

\* C32, as stated: when the provider and the tools gave the two exchanges
\* of a pair the same answers in the tool loop, both have decremented the
\* quota once, both guards are free, and the two stored transcripts have
\* the same shape.
C32_Original ==
    [][\A b \in inflight :
         EndsPair(b) =>
            /\ sessions'[b.token].messagesRemaining
                   = MAX_MESSAGES_PER_TOKEN - nAccepted
            /\ activeRequests' = {}
            /\ StoredShape(chatHistories', 1) = StoredShape(chatHistories', 2)
      ]_vars

\* C32, amended: with the same answers in the tool loop both exchanges
\* decrement the quota once and free their guards, and they leave stored
\* transcripts of the same shape when the streaming exchange succeeds or
\* fails inside the tool loop, as the plain one did.  When the streaming
\* call or its stream fails, the plain exchange has stored what the
\* streaming exchange would have stored, and the streaming exchange leaves
\* the turns of its loop without final assistant turn.
C32_SameEffectUpToStreaming ==
    [][\A b \in inflight :
         EndsPair(b) =>
            /\ sessions'[b.token].messagesRemaining
                   = MAX_MESSAGES_PER_TOKEN - nAccepted
            /\ activeRequests' = {}
            /\ (Succeeds(b) \/ b.pc \in {"model", "tool"}) =>
                  StoredShape(chatHistories', 1) = StoredShape(chatHistories', 2)
            /\ (Fails(b) /\ b.pc \in {"stream", "chunks"}) =>
                  /\ StoredShape(chatHistories', 1) =
                        <<Shape(TrimHistory(Append(b.history,
                                                   AssistantTurn("", <<>>))))>>
                  /\ StoredShape(chatHistories', 2) =
                        IF b.aliased THEN <<Shape(b.history)>> ELSE <<>>
      ]_vars

\* C32: the second pair of exchanges has ended, both with tool turns and
\* both with their final assistant turn, on transcripts of the first pair.
C32_Witness ==
    /\ inflight = {} /\ nAccepted = 4
    /\ last.op = "stream" /\ last.status = 200 /\ last.event = "done"
    /\ {1, 2} \subseteq DOMAIN chatHistories
    /\ Shape(chatHistories[1]) = Shape(chatHistories[2])
    /\ \E i \in 1..Len(chatHistories[1]) :
         /\ chatHistories[1][i].role = "tool"
         /\ CallSerial(chatHistories[1][i].id) = 3
         /\ chatHistories[2][i].role = "tool"
         /\ CallSerial(chatHistories[2][i].id) = 4
    /\ \E i \in 1..Len(chatHistories[1]) :
         /\ chatHistories[1][i].role = "tool"
         /\ CallSerial(chatHistories[1][i].id) = 1

\* The requests accepted in this step that carry token t
AcceptedWith(t) ==
    {r \in inflight' : r.token = t /\ r.serial > nAccepted}

\* C33: a session enters the store with 25 messages and an expiry 24 hours
\* after its creation, under a token of its own; while it is stored its
\* createdAt, expiresAt and origin stay as they are and the only change is
\* messagesRemaining going down by one in the step that accepts a message
\* with its token; it leaves the store only in a step taken after its
\* expiresAt.
C33_SessionLifecycle ==
    /\ [](\A t \in DOMAIN sessions :
            /\ t \in 1..Len(minted)
            /\ sessions[t].createdAt = minted[t].at
            /\ sessions[t].ip = minted[t].ip
            /\ sessions[t].expiresAt = sessions[t].createdAt + TOKEN_EXPIRY_HOURS
            /\ sessions[t].messagesRemaining \in 0..MAX_MESSAGES_PER_TOKEN)
    /\ [][/\ \A t \in DOMAIN sessions' \ DOMAIN sessions :
               /\ t = Len(minted) + 1 /\ Len(minted') = t
               /\ sessions'[t].createdAt = now
               /\ sessions'[t].expiresAt = now + TOKEN_EXPIRY_HOURS
               /\ sessions'[t].messagesRemaining = MAX_MESSAGES_PER_TOKEN
          /\ \A t \in DOMAIN sessions :
               IF t \in DOMAIN sessions'
               THEN \/ sessions'[t] = sessions[t]
                    \/ /\ sessions'[t] =
                            [sessions[t] EXCEPT !.messagesRemaining = @ - 1]
                       /\ nAccepted' = nAccepted + 1
                       /\ AcceptedWith(t) # {}
               ELSE sessions[t].expiresAt < now
         ]_vars

\* C33: of two sessions one has been used for a message and is still
\* stored at the hour of its expiry, and the other has left the store.
C33_Witness ==
    /\ Len(minted) = 2
    /\ \E t, u \in 1..2 :
         /\ t \in DOMAIN sessions /\ u \notin DOMAIN sessions
         /\ sessions[t].messagesRemaining = MAX_MESSAGES_PER_TOKEN - 1
         /\ sessions[t].expiresAt = now

\* The sessions created from origin ip since its throttle record was
\* initialized, which was IP_WINDOW_HOURS before its resetAt
CreatedSinceInit(ip) ==
    {j \in 1..Len(minted) :
        /\ minted[j].ip = ip
        /\ minted[j].at >= tokenCreationByIp[ip].resetAt - IP_WINDOW_HOURS}

\* C34: the count of every throttle record is the number of sessions
\* created from its origin since the record was initialized, and lies
\* between 1 and 3; a createSession that succeeds adds one to the count of
\* a record whose resetAt is in the future, and otherwise puts a record of
\* count 1 that ends 24 hours from now in its place.
C34_ThrottleCount ==
    /\ [](\A ip \in DOMAIN tokenCreationByIp :
            /\ tokenCreationByIp[ip].count = Cardinality(CreatedSinceInit(ip))
            /\ tokenCreationByIp[ip].count \in 1..MAX_TOKENS_PER_IP_PER_DAY)
    /\ [][\A ip \in 1..LedgerIps :
            (CreateSession(ip) /\ Len(minted') = Len(minted) + 1) =>
               /\ ip \in DOMAIN tokenCreationByIp'
               /\ \A other \in DOMAIN tokenCreationByIp \ {ip} :
                    /\ other \in DOMAIN tokenCreationByIp'
                    /\ tokenCreationByIp'[other] = tokenCreationByIp[other]
               /\ IF /\ ip \in DOMAIN tokenCreationByIp
                     /\ tokenCreationByIp[ip].resetAt > now
                  THEN tokenCreationByIp'[ip] =
                          [count |-> tokenCreationByIp[ip].count + 1,
                           resetAt |-> tokenCreationByIp[ip].resetAt]
                  ELSE tokenCreationByIp'[ip] =
                          [count |-> 1, resetAt |-> now + IP_WINDOW_HOURS]
         ]_vars

\* C34: an origin has a full record of three sessions while the record of
\* another origin has been replaced at the instant of its resetAt and
\* counts the one session created since.
C34_Witness ==
    \E ip, other \in DOMAIN tokenCreationByIp :
        /\ tokenCreationByIp[ip].count = MAX_TOKENS_PER_IP_PER_DAY
        /\ tokenCreationByIp[ip].resetAt > now
        /\ tokenCreationByIp[other].count = 1
        /\ tokenCreationByIp[other].resetAt = now + IP_WINDOW_HOURS
        /\ \E j \in 1..Len(minted) :
             /\ minted[j].ip = other
             /\ minted[j].at + IP_WINDOW_HOURS = now

\* The conditions under which the claim lets the booking mail go out
MailAllowed(args, configured) ==
    configured /\ args.present /\ args.hasContact /\ args.location = "in"

\* The results of send_booking_inquiry that are texts without a mail sent
BookingTexts ==
    {"not_configured", "no_contact", "no_location", "out_of_area",
     "send_failed"}

\* C35, as stated: send_booking_inquiry sends the mail only when mail is
\* configured, a contact and a location are given and the location is in
\* the area; in every other case, and when the send fails, it returns a
\* text and sends nothing, on POST /ai/send-booking and in the tool loop,
\* where the exchange goes on with the text as its tool turn.
C35_Original ==
    [][\A a \in BookingArgs, c \in BOOLEAN, m \in BOOLEAN :
         LET result == ExecuteSendBooking(a, c, m) IN
         /\ \A t \in TokenInputs :
              (SendBookingAnswered(t, a, c, m) /\ last'.status # 401) =>
                 /\ last'.event = result
                 /\ result = "sent" => MailAllowed(a, c) /\ m
                 /\ ~(MailAllowed(a, c) /\ m) => result \in BookingTexts
         /\ \A r \in inflight :
              ToolReply(r, ToolOutcome(result)) =>
                 /\ result = "sent" => MailAllowed(a, c) /\ m
                 /\ ~(MailAllowed(a, c) /\ m) =>
                       /\ result \in BookingTexts
                       /\ ~Fails(r)
      ]_vars

\* The tool-dispatch rounds of request r so far: the assistant turns with
\* tool calls pushed after its user turn
Rounds(r) ==
    Cardinality({i \in (UserTurnIndex(r.history) + 1)..Len(r.history) :
                    /\ r.history[i].role = "assistant"
                    /\ Len(r.history[i].calls) > 0})

\* C36: an accepted exchange holds its guard and performs at most
\* maxIterations tool-dispatch rounds; when every model call, tool call and
\* stream returns or fails, the exchange ends with its answer or with a
\* reported error, and its guard is free then.
C36_Terminates ==
    /\ [](\A r \in inflight :
            Rounds(r) <= maxIterations /\ GuardHeld(r.conv))
    /\ \A s \in 1..LiveExchanges :
         (\E r \in inflight : r.serial = s)
            ~> (/\ \A r \in inflight : r.serial # s
                /\ last.serial = s /\ last.status \in {200, 500}
                /\ ~GuardHeld(last.conv))

\* C36: the second exchange of the conversation has ended with its answer
\* after maxIterations tool-dispatch rounds, and the guard is free.
C36_Witness ==
    /\ inflight = {} /\ ~GuardHeld(1)
    /\ last.serial = 2 /\ last.status = 200
    /\ 1 \in DOMAIN chatHistories
    /\ \E i \in 1..Len(chatHistories[1]) :
         /\ chatHistories[1][i].role = "tool"
         /\ CallSerial(chatHistories[1][i].id) = 2
         /\ CallRound(chatHistories[1][i].id) = maxIterations

\* The step leaves alone the stored transcript and the guard entry of every
\* conversation other than conv, and every session other than that of
\* token.
OthersUntouched(conv, token) ==
    /\ \A y \in Convs \ {conv} :
         /\ y \in DOMAIN chatHistories <=> y \in DOMAIN chatHistories'
         /\ y \in DOMAIN chatHistories => chatHistories'[y] = chatHistories[y]
         /\ y \in activeRequests <=> y \in activeRequests'
    /\ \A u \in DOMAIN sessions \ {token} :
         /\ u \in DOMAIN sessions'
         /\ sessions'[u] = sessions[u]

\* C37: the step that accepts a request on a conversation, and every later
\* step of the exchange up to its end, leave alone the stored transcripts
\* and the guard entries of the other conversations and the sessions of
\* the other tokens.
C37_KeyedIsolation ==
    [][/\ \A r \in inflight' :
              r.serial > nAccepted => OthersUntouched(r.conv, r.token)
       /\ \A r \in inflight :
              r \notin inflight' => OthersUntouched(r.conv, r.token)
      ]_vars

\* C37: two exchanges with different tokens are in flight on different
\* conversations, one of them at a tool call, both guards held.
C37_Witness ==
    \E r, q \in inflight :
        /\ r.conv # q.conv /\ r.token # q.token
        /\ r.pc = "tool"
        /\ {r.conv, q.conv} \subseteq activeRequests
        /\ sessions[r.token].messagesRemaining = MAX_MESSAGES_PER_TOKEN - 1
        /\ sessions[q.token].messagesRemaining = MAX_MESSAGES_PER_TOKEN - 1

\* Transcript s is the end of transcript h: h without its first turns.
IsSuffix(s, h) ==
    /\ Len(s) <= Len(h)
    /\ s = SubSeq(h, Len(h) - Len(s) + 1, Len(h))

\* C38: the step that ends an exchange with its answer stores a transcript
\* for its conversation that is not empty, ends with an assistant turn
\* without tool calls, and is the end of the transcript of the handler with
\* that final turn appended: the trim drops first turns only.
C38_FinalTurnAndSuffix ==
    [][\A r \in inflight :
         Succeeds(r) =>
            /\ r.conv \in DOMAIN chatHistories'
            /\ LET stored == chatHistories'[r.conv] IN
               /\ Len(stored) > 0
               /\ stored[Len(stored)].role = "assistant"
               /\ stored[Len(stored)].calls = <<>>
               /\ IsSuffix(stored, Append(r.history, stored[Len(stored)]))
      ]_vars

\* C38: the second exchange of a conversation has ended with its answer
\* and its transcript of more than 20 turns was trimmed: the stored one has
\* fewer than 20 turns, begins with an assistant turn of the first
\* exchange and ends with the final turn of the second.
C38_Witness ==
    /\ inflight = {} /\ last.serial = 2 /\ last.status = 200
    /\ last.event # "error"
    /\ 1 \in DOMAIN chatHistories
    /\ LET stored == chatHistories[1] IN
       /\ Len(stored) > 1 /\ Len(stored) < MAX_HISTORY_LENGTH
       /\ stored[1].role = "assistant" /\ Len(stored[1].calls) > 0
       /\ CallSerial(stored[1].calls[1]) = 1
       /\ stored[Len(stored)].role = "assistant"
       /\ stored[Len(stored)].calls = <<>>
       /\ \E i \in 1..Len(stored) :
            stored[i].role = "tool" /\ CallSerial(stored[i].id) = 2

=============================================================================
